---- MODULE Spec2Model ----
(***************************************************************************)
(* Box Management System, frontend (src/frontend/src/App.jsx).             *)
(*                                                                         *)
(* State machine of the React components that make up the search and      *)
(* identity-resolution paths: Navigation / QRScanner / QRCodeModal (the    *)
(* optical codec), GlobalSearch (search request and highlightMatch),       *)
(* BoxList.filterBoxes and BoxDetail.filterItems (the Fuse.js filters).    *)
(* JavaScript strings are TLA+ strings; positions are 1-based here and     *)
(* 0-based in the source.                                                  *)
(***************************************************************************)
EXTENDS Integers, Sequences, FiniteSets, TLC

VARIABLES
    origin,        \* window.location.origin of the deployment
    route,         \* current router location (pathname)
    showScanner,   \* Navigation: useState(false), line 937
    qrCodeUrl,     \* QRCodeModal: useState(''), line 682 (the rendered payload)
    scanLog,       \* what the last onScanSuccess call did (history)
    hlText,        \* highlightMatch: the text argument
    hlQuery,       \* highlightMatch: the search argument (searchTerm)
    hlOut,         \* highlightMatch: <<>> before the call, then <<what it returned>>
    boxes,             \* BoxList: useState([]), line 54
    filteredBoxes,     \* BoxList: useState([]), line 55
    listSearchTerm,    \* BoxList: searchTerm, useState(''), line 57
    locationFilter,    \* BoxList: useState(''), line 58
    items,             \* BoxDetail: useState([]), line 240
    filteredItems,     \* BoxDetail: useState([]), line 241
    detailSearchTerm,  \* BoxDetail: searchTerm, useState(''), line 243
    showGlobalSearch,  \* Navigation: useState(false), line 938
    globalSearchTerm,  \* GlobalSearch: searchTerm, useState(''), line 815
    results,           \* GlobalSearch: useState([]), line 816
    loading,           \* GlobalSearch: useState(false), line 817
    pending,           \* GlobalSearch: the q of each axios.get('/search') not yet settled
    searchLog,         \* what the last handleSearch call did, and the results
                       \* shown when it was made (history)
    matchKind,         \* one run of a filter: "boxes" (filterBoxes) or "items" (filterItems)
    matchList,         \* ... the list it reads (boxes, line 86, or items, line 278)
    matchTerm,         \* ... its searchTerm
    matchLocation,     \* ... its locationFilter ("" for items)
    matchOut,          \* ... <<>> before the run, then <<the list it sets>>
    showAddItemModal,  \* BoxDetail: useState(false), line 244
    formName,          \* AddItemModal: formData.name, line 614
    formQuantity,      \* AddItemModal: formData.quantity, line 615
    editingItem,       \* BoxDetail: useState(null), line 246 ("" for null)
    itemRequests,       \* the POST /items and PUT /items/{id} requests sent (history)
    showCreateModal,  \* BoxList: useState(false), line 59
    boxFormName,  \* CreateBoxModal: formData.name, line 544
    createPending,  \* the name of each axios.post('/boxes') not yet settled
    listFetches,  \* number of axios.get('/boxes') calls not yet settled
    boxRequests,  \* the names of the POST /boxes requests sent (history)
    createLog,  \* what the last step of the create-box dialog was (history)
    pendingLatest,  \* for each request of pending: is it the one issued last (history)
    latestAnswer,  \* how the request issued last settled (history)
    detailBox,  \* BoxDetail: box, useState(null), line 239: the id of the box held ("" for null)
    itemsBox,  \* the id of the box whose items are held in items (history)
    detailLoading,  \* BoxDetail: loading, useState(true), line 242
    detailFetches,  \* the boxId of each fetchBoxDetails call not yet settled
    lastFetch,  \* the fetchBoxDetails call that settled last (history)
    csvRows,  \* convertToCSV: its argument data, the values of each row in header order
    csvOut,  \* convertToCSV: <<>> before the call, then <<the text it returned>>
    marker,  \* startup.sh: TRUE iff the file /data/db/.initialized exists (kept across starts)
    dbReady,  \* startup.sh: TRUE iff the collections and indexes of box_management exist in /data/db
    mongodUp,  \* startup.sh: TRUE iff the forked mongod is running
    bootPc,  \* startup.sh: the command the script is at
    initOk,  \* startup.sh: the outcomes of the initialization commands run in this start
    starts  \* startup.sh: number of container starts so far

scanVars == <<origin, route, showScanner, qrCodeUrl, scanLog>>
hlVars == <<hlText, hlQuery, hlOut>>
listVars == <<boxes, filteredBoxes, listSearchTerm, locationFilter>>
detailVars == <<items, filteredItems, detailSearchTerm>>
searchVars == <<showGlobalSearch, globalSearchTerm, results, loading, pending, searchLog>>
matchVars == <<matchKind, matchList, matchTerm, matchLocation, matchOut>>
itemVars == <<showAddItemModal, formName, formQuantity, editingItem, itemRequests>>

createVars == <<showCreateModal, boxFormName, createPending, listFetches, boxRequests, createLog>>

raceVars == <<pendingLatest, latestAnswer>>

fetchVars == <<detailBox, itemsBox, detailLoading, detailFetches, lastFetch>>

csvVars == <<csvRows, csvOut>>

bootVars == <<marker, dbReady, mongodUp, bootPc, initOk, starts>>

vars == <<scanVars, hlVars, listVars, detailVars, searchVars, matchVars, itemVars,
      createVars,
      raceVars,
      fetchVars,
      csvVars,
      bootVars>>

\* the variables of the other components, left alone by the codec's actions
notScan == <<hlVars, listVars, detailVars, searchVars, matchVars, itemVars,
      createVars,
      raceVars,
      fetchVars,
      csvVars,
      bootVars>>

\* ... by the render of a highlighted field
notHighlight == <<scanVars, listVars, detailVars, searchVars, matchVars, itemVars,
      createVars,
      raceVars,
      fetchVars,
      csvVars,
      bootVars>>

\* ... by the filtered views, which share the route with the codec
notFilter ==
    <<origin, showScanner, qrCodeUrl, scanLog, hlVars, searchVars, matchVars, itemVars,
      createVars,
      raceVars,
      fetchVars,
      csvVars,
      bootVars>>

\* ... by the global search dialog
notSearch ==
    <<origin, showScanner, qrCodeUrl, scanLog, hlVars, listVars, detailVars, matchVars,
      itemVars,
      createVars,
      fetchVars,
      csvVars,
      bootVars>>

\* ... by one run of a filter
notMatch == <<scanVars, hlVars, listVars, detailVars, searchVars, itemVars,
      createVars,
      raceVars,
      fetchVars,
      csvVars,
      bootVars>>

\* ... by the item forms of BoxDetail, which refetch the items
notItems ==
    <<origin, route, showScanner, qrCodeUrl, scanLog, hlVars, listVars, detailSearchTerm,
      searchVars, matchVars,
      createVars,
      raceVars,
      fetchVars,
      csvVars,
      bootVars>>

---------------------------------------------------------------------------
(* JavaScript string primitives *)

\* lowest position p >= from with s[p] = c, 0 when there is none
RECURSIVE IndexOfChar(_, _, _)
IndexOfChar(s, c, from) ==
    IF from > Len(s) THEN 0
    ELSE IF SubSeq(s, from, from) = c THEN from
    ELSE IndexOfChar(s, c, from + 1)

\* the character at position i, "" outside the string (String.prototype.charAt)
At(s, i) == IF i < 1 \/ i > Len(s) THEN "" ELSE SubSeq(s, i, i)

UpperLetters == "ABCDEFGHIJKLMNOPQRSTUVWXYZ"
LowerLetters == "abcdefghijklmnopqrstuvwxyz"

UpperSet == {At(UpperLetters, i) : i \in 1..Len(UpperLetters)}

LowerOf == [c \in UpperSet |-> At(LowerLetters, IndexOfChar(UpperLetters, c, 1))]

\* one character of String.prototype.toLowerCase (ASCII letters)
LowerChar(c) == IF c \in UpperSet THEN LowerOf[c] ELSE c

\* String.prototype.toLowerCase
RECURSIVE ToLowerCase(_)
ToLowerCase(s) ==
    IF s = "" THEN "" ELSE LowerChar(At(s, 1)) \o ToLowerCase(SubSeq(s, 2, Len(s)))

\* lowest position p >= from at which sep occurs in s, 0 when there is none
\* (String.prototype.indexOf, 1-based)
RECURSIVE IndexOf(_, _, _)
IndexOf(s, sep, from) ==
    IF from + Len(sep) - 1 > Len(s) THEN 0
    ELSE IF SubSeq(s, from, from + Len(sep) - 1) = sep THEN from
    ELSE IndexOf(s, sep, from + 1)

\* String.prototype.includes
Includes(s, sep) == IndexOf(s, sep, 1) > 0

\* String.prototype.split with a non-empty string separator: the pieces
\* between successive non-overlapping occurrences, scanning left to right
RECURSIVE Split(_, _)
Split(s, sep) ==
    LET p == IndexOf(s, sep, 1)
    IN  IF p = 0 THEN <<s>>
        ELSE <<SubSeq(s, 1, p - 1)>> \o Split(SubSeq(s, p + Len(sep), Len(s)), sep)

RECURSIVE Concat(_)
Concat(parts) == IF parts = <<>> THEN "" ELSE Head(parts) \o Concat(Tail(parts))

---------------------------------------------------------------------------
(* Identity codec: QRCodeModal.generateQRCode and QRScanner.onScanSuccess *)

Marker == "/box/"

HexDigits == {"0", "1", "2", "3", "4", "5", "6", "7", "8", "9",
              "a", "b", "c", "d", "e", "f", "A", "B", "C", "D", "E", "F"}

UuidLen == 36

HyphenAt == {9, 14, 19, 24}

\* (variant) the pattern of line 785 without its i flag
MatchesUuid(s) ==
    /\ Len(s) = UuidLen
    /\ \A i \in 1..UuidLen :
          IF i \in HyphenAt THEN At(s, i) = "-"
          ELSE At(s, i) \in (HexDigits \ {"A", "B", "C", "D", "E", "F"})

\* decodedText.match(/^[0-9a-f]{8}-[0-9a-f]{4}-[0-9a-f]{4}-[0-9a-f]{4}-[0-9a-f]{12}$/i)
MatchesUuidCI(s) ==
    /\ Len(s) = UuidLen
    /\ \A i \in 1..UuidLen :
          IF i \in HyphenAt THEN At(s, i) = "-" ELSE At(s, i) \in HexDigits

PathOnly(o, id) == Marker \o id

\* the locator string of a box: `${window.location.origin}/box/${box.id}`
LocatorUrl(o, id) == o \o Marker \o id

\* QRCode.toDataURL(url, {width: 300, margin: 2, color: {dark, light}})
QRPayload(url) ==
    [rendered |-> TRUE, text |-> url, width |-> 300, margin |-> 2,
     dark |-> "#000000", light |-> "#FFFFFF"]

\* useState(''): nothing rendered yet
NoPayload ==
    [rendered |-> FALSE, text |-> "", width |-> 0, margin |-> 0,
     dark |-> "", light |-> ""]

\* onScanSuccess did not call navigate
NoNav == [nav |-> FALSE, path |-> ""]

\* navigate(path)
Nav(p) == [nav |-> TRUE, path |-> p]

\* no onScanSuccess call yet
NoScan == [done |-> FALSE, text |-> "", target |-> NoNav, closed |-> FALSE]

\* decodedText.split('/box/')[1]
LocatorCandidate(decodedText) == Split(decodedText, Marker)[2]

\* onScanSuccess ends with onClose(), whatever the branch taken (line 789)
ScanCloses(decodedText) == TRUE

\* (variant) onScanSuccess with the test of line 785 left out
ScanTargetUnchecked(decodedText) ==
    IF Includes(decodedText, Marker)
    THEN Nav("/box/" \o LocatorCandidate(decodedText))
    ELSE Nav("/box/" \o decodedText)

\* the navigate call of onScanSuccess: navigate(`/box/${boxId}`), or none
ScanTarget(decodedText) ==
    IF Includes(decodedText, Marker)
    THEN Nav("/box/" \o LocatorCandidate(decodedText))
    ELSE IF MatchesUuidCI(decodedText)
    THEN Nav("/box/" \o decodedText)
    ELSE NoNav

---------------------------------------------------------------------------
(* Inputs of the codec *)

Id1 == "0a1b2c3d-4e5f-4a6b-8c7d-9e0f1a2b3c4d"
Id2 == "0A1B2C3D-4E5F-4A6B-8C7D-9E0F1A2B3C4D"

\* box records as the backend returns them (GET /boxes/{id})
BoxRecords ==
    { [id |-> Id1, name |-> "Garage Tools", location |-> "Garage", description |-> ""],
      [id |-> Id2, name |-> "Kitchen Items", location |-> "", description |-> "pots, pans"] }

CanonicalIds == {b.id : b \in BoxRecords}

\* values of window.location.origin: scheme "://" host [":" port]
Origins == {"https://example.local", "http://box"}

\* pieces a scanned text is put together from
IdBad == "0a1b2c3d-4e5f-4a6b-8c7d-9e0f1a2b3c4g"

ScanFrags == {"/box/", "b1", Id1, Id2, IdBad}

MaxScanFrags == 2

RECURSIVE TextsOf(_, _)
TextsOf(frags, n) ==
    IF n = 0 THEN {""}
    ELSE LET shorter == TextsOf(frags, n - 1)
         IN  shorter \cup {t \o f : t \in shorter, f \in frags}

\* texts the optical scanner may deliver (besides a rendered payload)
ScanTexts == TextsOf(ScanFrags, MaxScanFrags) \ {""}

\* the locator strings generateQRCode can render
LocatorTexts == {LocatorUrl(o, id) : o \in Origins, id \in CanonicalIds}

\* ScanTarget, tabulated over the texts the scanner can deliver
ScanTargetOf == [t \in ScanTexts \cup LocatorTexts |-> ScanTarget(t)] @@ <<>>

---------------------------------------------------------------------------
(* Navigation, QRCodeModal and QRScanner *)

\* no highlighted field rendered
IdleHighlight ==
    /\ hlText = ""
    /\ hlQuery = ""
    /\ hlOut = <<>>

\* BoxList as mounted, before its first fetch returns
IdleList ==
    /\ boxes = <<>>
    /\ filteredBoxes = <<>>
    /\ listSearchTerm = ""
    /\ locationFilter = ""

\* BoxDetail as mounted, before its first fetch returns
IdleDetail ==
    /\ items = <<>>
    /\ filteredItems = <<>>
    /\ detailSearchTerm = ""

NoSubmit == [done |-> FALSE, term |-> "", sent |-> FALSE, shown |-> <<>>]

\* GlobalSearch as mounted; Navigation starts with the dialog closed
FreshSearch ==
    /\ globalSearchTerm = ""
    /\ results = <<>>
    /\ loading = FALSE
    /\ pending = <<>>
    /\ searchLog = NoSubmit

IdleSearch ==
    /\ showGlobalSearch = FALSE
    /\ FreshSearch

\* no filter run under observation
IdleMatch ==
    /\ matchKind = "boxes"
    /\ matchList = <<>>
    /\ matchTerm = ""
    /\ matchLocation = ""
    /\ matchOut = <<>>

\* AddItemModal's formData as mounted (lines 613-617)
FreshForm ==
    /\ formName = ""
    /\ formQuantity = 1

\* no item form open, no item request sent
IdleItems ==
    /\ showAddItemModal = FALSE
    /\ FreshForm
    /\ editingItem = ""
    /\ itemRequests = <<>>

IdleCreate ==
    /\ showCreateModal = FALSE
    /\ boxFormName = ""
    /\ createPending = <<>>
    /\ listFetches = 0
    /\ boxRequests = <<>>
    /\ createLog = "none"

\* the request issued last has not settled, or none was issued
NoAnswer == [done |-> FALSE, ok |-> FALSE, data |-> <<>>]

IdleRace ==
    /\ pendingLatest = <<>>
    /\ latestAnswer = NoAnswer

\* no fetchBoxDetails call has settled
NoFetch == [id |-> "", ok |-> FALSE]

IdleFetch ==
    /\ detailBox = ""
    /\ itemsBox = ""
    /\ detailLoading = TRUE
    /\ detailFetches = <<>>
    /\ lastFetch = NoFetch

IdleCsv ==
    /\ csvRows = <<>>
    /\ csvOut = <<>>

IdleBoot ==
    /\ marker = FALSE
    /\ dbReady = FALSE
    /\ mongodUp = FALSE
    /\ bootPc = "stopped"
    /\ initOk = <<>>
    /\ starts = 0

IdleViews ==
    /\ IdleList
    /\ IdleDetail
    /\ IdleSearch
    /\ IdleMatch
    /\ IdleItems
    /\ IdleCreate
    /\ IdleRace
    /\ IdleFetch
    /\ IdleCsv
    /\ IdleBoot

\* the codec's components before any interaction, for one deployment
IdleScan ==
    /\ origin = "https://example.local"
    /\ route = "/"
    /\ showScanner = FALSE
    /\ qrCodeUrl = NoPayload
    /\ scanLog = NoScan

InitScan ==
    /\ IdleHighlight
    /\ IdleViews
    /\ origin \in Origins
    /\ route = "/"
    /\ showScanner = FALSE
    /\ qrCodeUrl = NoPayload
    /\ scanLog = NoScan

\* Navigation: onClick={() => setShowScanner(true)}
OpenScanner ==
    /\ ~showScanner
    /\ showScanner' = TRUE
    /\ UNCHANGED <<origin, route, qrCodeUrl, scanLog, notScan>>

\* QRScanner: the Cancel button, onClick={onClose}
CancelScanner ==
    /\ showScanner
    /\ showScanner' = FALSE
    /\ UNCHANGED <<origin, route, qrCodeUrl, scanLog, notScan>>

\* Navigation: the title's onClick={() => navigate('/')}
NavigateHome ==
    /\ route # "/"
    /\ route' = "/"
    /\ UNCHANGED <<origin, showScanner, qrCodeUrl, scanLog, notScan>>

\* QRCodeModal.generateQRCode for the box the modal was opened with
GenerateQRCode(box) ==
    /\ qrCodeUrl' = QRPayload(LocatorUrl(origin, box.id))
    /\ qrCodeUrl' # qrCodeUrl
    /\ UNCHANGED <<origin, route, showScanner, scanLog, notScan>>

\* QRScanner.onScanSuccess(decodedText); the scanner exists while the
\* QRScanner component is mounted, that is while showScanner holds
OnScanSuccess(decodedText) ==
    /\ showScanner
    /\ LET target == ScanTargetOf[decodedText]
       IN  /\ route' = IF target.nav THEN target.path ELSE route
           /\ showScanner' = IF ScanCloses(decodedText) THEN FALSE ELSE showScanner
           /\ scanLog' = [done |-> TRUE, text |-> decodedText, target |-> target,
                          closed |-> ScanCloses(decodedText)]
    /\ UNCHANGED <<origin, qrCodeUrl, notScan>>

\* the scanner reads an arbitrary optical code
ScanForeignCode == \E t \in ScanTexts : OnScanSuccess(t)

\* the scanner reads the payload rendered by generateQRCode
ScanRenderedCode ==
    /\ qrCodeUrl.rendered
    /\ OnScanSuccess(qrCodeUrl.text)

NextScan ==
    \/ OpenScanner
    \/ CancelScanner
    \/ NavigateHome
    \/ \E box \in BoxRecords : GenerateQRCode(box)
    \/ ScanForeignCode
    \/ ScanRenderedCode

SpecScan == InitScan /\ [][NextScan]_vars

---------------------------------------------------------------------------
(* Claims on the identity codec, checked under SpecScan *)

\* the canonical identifier shape, stated by groups: five hyphen-separated
\* groups of 8, 4, 4, 4 and 12 hexadecimal digits of either case
UuidGroups == <<8, 4, 4, 4, 12>>

UuidShape(s) ==
    LET g == Split(s, "-")
    IN  /\ Len(g) = Len(UuidGroups)
        /\ \A k \in 1..Len(g) :
              /\ Len(g[k]) = UuidGroups[k]
              /\ \A i \in 1..Len(g[k]) : At(g[k], i) \in HexDigits

\* the text after the first occurrence of the marker
AfterMarker(t) == SubSeq(t, IndexOf(t, Marker, 1) + Len(Marker), Len(t))

\* the step is a call of onScanSuccess (with the text it logs)
ScanStep == scanLog'.done /\ showScanner /\ OnScanSuccess(scanLog'.text)

\* the texts that match neither recognizer: no marker in them, and not of
\* the identifier shape
UnrecognizedTexts ==
    {t \in ScanTexts \cup LocatorTexts : ~Includes(t, Marker) /\ ~UuidShape(t)}

\* C1: codec round-trip. Scanning the locator string that the encode path
\* builds for a canonical identifier id (origin + "/box/" + id) navigates to
\* exactly /box/id.
C1_RoundTrip ==
    \A id \in CanonicalIds :
        (scanLog.done /\ scanLog.text = LocatorUrl(origin, id))
            => scanLog.target = Nav("/box/" \o id)

\* C2: locator recognizer. For a scanned text that contains "/box/", the
\* candidate identifier is the entire rest of the text after the marker,
\* also when the marker occurs again in that rest.
C2_EntireRest ==
    (scanLog.done /\ Includes(scanLog.text, Marker))
        => scanLog.target = Nav("/box/" \o AfterMarker(scanLog.text))

\* C3: bare-identifier recognizer. A scanned text without "/box/" is
\* accepted exactly when the whole text has the 8-4-4-4-12 hexadecimal
\* shape in either case; the identifier is then the text itself; "b1" is
\* rejected.
C3_BareIdentifier ==
    (scanLog.done /\ ~Includes(scanLog.text, Marker))
        => /\ scanLog.target.nav <=> UuidShape(scanLog.text)
           /\ scanLog.target.nav => scanLog.target.path = "/box/" \o scanLog.text
           /\ scanLog.text = "b1" => ~scanLog.target.nav

\* an upper-case identifier was scanned bare and accepted
C3_Witness ==
    /\ scanLog.done
    /\ scanLog.text = Id2
    /\ scanLog.target = Nav("/box/" \o Id2)
    /\ route = "/box/" \o Id2

\* C4: codec rejection. A scan of a text that matches neither recognizer
\* calls navigate not at all and leaves the route as it was.
C4_Rejection ==
    [][(ScanStep /\ scanLog'.text \in UnrecognizedTexts)
          => (scanLog'.target = NoNav /\ route' = route)]_vars

\* a text of identifier length with a non-hexadecimal digit was scanned and
\* rejected while a box page was shown
C4_Witness ==
    /\ scanLog.done
    /\ scanLog.text = IdBad
    /\ scanLog.target = NoNav
    /\ route = "/box/" \o Id1

\* C5: a rejected scan changes no state of the navigation side: the scanner
\* dialog stays open and the route stays.
C5_RejectionKeepsScanning ==
    [][(ScanStep /\ scanLog'.text \in UnrecognizedTexts)
          => (showScanner' = showScanner /\ route' = route)]_vars

\* C26: whenever onScanSuccess navigates, the target is "/box/" followed by
\* a non-empty identifier, also for a text that ends with "/box/".
C26_TargetIdNotEmpty ==
    (scanLog.done /\ scanLog.target.nav)
        => /\ SubSeq(scanLog.target.path, 1, 5) = "/box/"
           /\ Len(scanLog.target.path) > 5

\* what the claim says generateQRCode renders for a box
EncodedBox(o, box) ==
    [rendered |-> TRUE, text |-> o \o "/box/" \o box.id, width |-> 300,
     margin |-> 2, dark |-> "#000000", light |-> "#FFFFFF"]

\* C19: generateQRCode for a box renders exactly the origin followed by
\* "/box/" and the box's id, with width 300, margin 2, dark #000000 on light
\* #FFFFFF; the box's name, location and description do not enter it.
C19_Encode ==
    [][\A box \in BoxRecords :
           GenerateQRCode(box) => qrCodeUrl' = EncodedBox(origin, box)]_vars

\* a code is rendered for a box that has a name
C19_Witness ==
    /\ qrCodeUrl.rendered
    /\ \E box \in BoxRecords :
           box.name # "" /\ qrCodeUrl = EncodedBox(origin, box)

---------------------------------------------------------------------------
(* Regular expressions as highlightMatch builds and uses them:            *)
(* new RegExp(`(${search})`, 'gi') and String.prototype.split.            *)
(* The pattern language is the one the characters of the modelled search  *)
(* terms can form: letters and other plain characters, '.', '(', ')',     *)
(* '|', '*', '[' and '\'. No ']' occurs, so a '[' never ends its class.   *)

\* a capture: undefined, or the captured text
Undef == [def |-> FALSE, v |-> ""]
Def(str) == [def |-> TRUE, v |-> str]

\* syntax tree nodes; lo..hi are the capture groups a node owns or contains
Node(t, c, lo, hi, kids) == [t |-> t, c |-> c, lo |-> lo, hi |-> hi, kids |-> kids]
EmptyNode == Node("seq", "", 1, 0, <<>>)

\* SyntaxError thrown by the RegExp constructor
ParseFail == [ok |-> FALSE, node |-> EmptyNode, pos |-> 0, ng |-> 0]
ParseOk(node, pos, ng) == [ok |-> TRUE, node |-> node, pos |-> pos, ng |-> ng]

RECURSIVE ParseDisjunction(_, _, _)
RECURSIVE ParseAlternative(_, _, _, _)
RECURSIVE ParseTerm(_, _, _)

\* Atom, then an optional '*' quantifier
ParseTerm(p, i, ng) ==
    LET c == At(p, i)
        atom ==
            IF c = "*" THEN ParseFail                \* nothing to repeat
            ELSE IF c = "[" THEN ParseFail           \* unterminated character class
            ELSE IF c = "\\" THEN
                IF i + 1 > Len(p) THEN ParseFail     \* \ at end of pattern
                ELSE ParseOk(Node("char", At(p, i + 1), 1, 0, <<>>), i + 2, ng)
            ELSE IF c = "(" THEN
                LET body == ParseDisjunction(p, i + 1, ng + 1)
                IN  IF body.ok /\ At(p, body.pos) = ")"
                    THEN ParseOk(Node("group", "", ng + 1, body.ng, <<body.node>>),
                                 body.pos + 1, body.ng)
                    ELSE ParseFail                   \* unterminated group
            ELSE IF c = "." THEN ParseOk(Node("dot", "", 1, 0, <<>>), i + 1, ng)
            ELSE ParseOk(Node("char", c, 1, 0, <<>>), i + 1, ng)
    IN  IF atom.ok /\ At(p, atom.pos) = "*"
        THEN ParseOk(Node("star", "", ng + 1, atom.ng, <<atom.node>>),
                     atom.pos + 1, atom.ng)
        ELSE atom

\* Alternative: terms up to '|', ')' or the end of the pattern
ParseAlternative(p, i, ng, kids) ==
    IF i > Len(p) \/ At(p, i) \in {"|", ")"}
    THEN ParseOk(Node("seq", "", 1, 0, kids), i, ng)
    ELSE LET term == ParseTerm(p, i, ng)
         IN  IF term.ok
             THEN ParseAlternative(p, term.pos, term.ng, Append(kids, term.node))
             ELSE ParseFail

\* Disjunction: Alternative ( '|' Disjunction )?
ParseDisjunction(p, i, ng) ==
    LET left == ParseAlternative(p, i, ng, <<>>)
    IN  IF left.ok /\ At(p, left.pos) = "|"
        THEN LET right == ParseDisjunction(p, left.pos + 1, left.ng)
             IN  IF right.ok
                 THEN ParseOk(Node("alt", "", 1, 0, <<left.node, right.node>>),
                              right.pos, right.ng)
                 ELSE ParseFail
        ELSE left

\* new RegExp(pattern, 'gi'): the tree and the number of capture groups, or
\* ok = FALSE for a SyntaxError (an unmatched ')' leaves input unread)
Compile(pattern) ==
    LET r == ParseDisjunction(pattern, 1, 0)
    IN  IF r.ok /\ r.pos = Len(pattern) + 1 THEN r ELSE ParseFail

\* Canonicalize of the i flag (ASCII)
Canonicalize(c) == LowerChar(c)

LineTerminators == {"\n", "\r"}

\* captures lo..hi set back to undefined (RepeatMatcher, step 4)
ResetCaptures(caps, lo, hi) ==
    [k \in DOMAIN caps |-> IF lo <= k /\ k <= hi THEN Undef ELSE caps[k]]

RECURSIVE Match(_, _, _, _)
RECURSIVE MatchSeq(_, _, _, _, _)
RECURSIVE SeqRest(_, _, _, _, _)
RECURSIVE MatchStar(_, _, _, _)
RECURSIVE StarRest(_, _, _, _, _)

\* every way node n matches s after i characters, in the order in which the
\* backtracking matcher tries them; each with its end index and captures
Match(n, s, i, caps) ==
    CASE n.t = "char" ->
            IF i < Len(s) /\ Canonicalize(At(s, i + 1)) = Canonicalize(n.c)
            THEN <<[e |-> i + 1, caps |-> caps]>> ELSE <<>>
      [] n.t = "dot" ->
            IF i < Len(s) /\ At(s, i + 1) \notin LineTerminators
            THEN <<[e |-> i + 1, caps |-> caps]>> ELSE <<>>
      [] n.t = "seq" -> MatchSeq(n.kids, 1, s, i, caps)
      [] n.t = "alt" -> Match(n.kids[1], s, i, caps) \o Match(n.kids[2], s, i, caps)
      [] n.t = "group" ->
            LET rs == Match(n.kids[1], s, i, caps)
            IN  [j \in 1..Len(rs) |->
                    [e |-> rs[j].e,
                     caps |-> [rs[j].caps EXCEPT ![n.lo] = Def(SubSeq(s, i + 1, rs[j].e))]]]
      [] n.t = "star" -> MatchStar(n, s, i, caps)

MatchSeq(kids, j, s, i, caps) ==
    IF j > Len(kids) THEN <<[e |-> i, caps |-> caps]>>
    ELSE SeqRest(Match(kids[j], s, i, caps), 1, kids, j, s)

SeqRest(rs, idx, kids, j, s) ==
    IF idx > Len(rs) THEN <<>>
    ELSE MatchSeq(kids, j + 1, s, rs[idx].e, rs[idx].caps)
            \o SeqRest(rs, idx + 1, kids, j, s)

\* greedy '*': one more iteration first (an iteration that consumes nothing
\* fails), then no iteration at all
MatchStar(n, s, i, caps) ==
    StarRest(Match(n.kids[1], s, i, ResetCaptures(caps, n.lo, n.hi)), 1, n, s, i)
        \o <<[e |-> i, caps |-> caps]>>

StarRest(rs, idx, n, s, i) ==
    IF idx > Len(rs) THEN <<>>
    ELSE (IF rs[idx].e = i THEN <<>> ELSE MatchStar(n, s, rs[idx].e, rs[idx].caps))
            \o StarRest(rs, idx + 1, n, s, i)

\* RegExpBuiltinExec with the sticky flag at index q: the first match, if any
ExecAt(re, s, q) == Match(re.node, s, q, [k \in 1..re.ng |-> Undef])

RECURSIVE SplitLoop(_, _, _, _, _)
SplitLoop(re, s, p, q, parts) ==
    IF q >= Len(s) THEN Append(parts, Def(SubSeq(s, p + 1, Len(s))))
    ELSE LET z == ExecAt(re, s, q)
         IN  IF z = <<>> THEN SplitLoop(re, s, p, q + 1, parts)
             ELSE LET e == IF z[1].e < Len(s) THEN z[1].e ELSE Len(s)
                  IN  IF e = p THEN SplitLoop(re, s, p, q + 1, parts)
                      ELSE SplitLoop(re, s, e, e,
                              Append(parts, Def(SubSeq(s, p + 1, q)))
                                  \o [k \in 1..re.ng |-> z[1].caps[k]])

\* String.prototype.split(regexp) (RegExp.prototype[@@split]): the pieces
\* between matches, each match followed by all its captures
RegexSplit(s, re) ==
    IF Len(s) = 0
    THEN IF ExecAt(re, s, 0) = <<>> THEN <<Def(s)>> ELSE <<>>
    ELSE SplitLoop(re, s, 0, 0, <<>>)

---------------------------------------------------------------------------
(* GlobalSearch.highlightMatch *)

\* the function threw (SyntaxError from new RegExp, TypeError from
\* undefined.toLowerCase())
Threw == [threw |-> TRUE, segs |-> <<>>]

Segment(str, isMatch) == [text |-> str, mark |-> isMatch]

\* parts.map(part => part.toLowerCase() === search.toLowerCase() ? <mark> : part)
MarkParts(parts, search) ==
    IF \E k \in 1..Len(parts) : ~parts[k].def THEN Threw
    ELSE [threw |-> FALSE,
          segs |-> [k \in 1..Len(parts) |->
                       Segment(parts[k].v, ToLowerCase(parts[k].v) = ToLowerCase(search))]]

\* new RegExp(`(${search})`, 'gi')
SearchRegExp(search) == Compile("(" \o search \o ")")

\* (variant) highlightMatch without its first line
HighlightMatchNoGuard(text, search) ==
    LET re == SearchRegExp(search)
    IN  IF ~re.ok THEN Threw ELSE MarkParts(RegexSplit(text, re), search)

\* highlightMatch(text, search), lines 835-842
HighlightMatch(text, search) ==
    IF search = "" THEN [threw |-> FALSE, segs |-> <<Segment(text, FALSE)>>]
    ELSE LET re == SearchRegExp(search)
         IN  IF ~re.ok THEN Threw ELSE MarkParts(RegexSplit(text, re), search)

---------------------------------------------------------------------------
(* Inputs of highlightMatch *)

TextAlphabet == {"a", "A", "b", "*"}
QueryAlphabet == {"a", ".", "(", ")", "|", "*", "[", "\\"}

MaxTextLen == 2
MaxQueryLen == 3

\* result.name, result.location, result.details of the displayed results
HlTexts == TextsOf(TextAlphabet, MaxTextLen) \cup {"Garage Tools"}

\* values of the search input
HlQueries == TextsOf(QueryAlphabet, MaxQueryLen) \cup {"tool"}

InitHighlight ==
    /\ IdleScan
    /\ IdleViews
    /\ hlText \in HlTexts
    /\ hlQuery \in HlQueries
    /\ hlOut = <<>>

\* the render of one highlighted field: highlightMatch(text, searchTerm)
RenderHighlight ==
    /\ hlOut = <<>>
    /\ hlOut' = <<HighlightMatch(hlText, hlQuery)>>
    /\ UNCHANGED <<hlText, hlQuery>>
    /\ UNCHANGED notHighlight

NextHighlight == RenderHighlight

SpecHighlight == InitHighlight /\ [][NextHighlight]_vars

---------------------------------------------------------------------------
(* Claims on highlightMatch, checked under SpecHighlight *)

Rendered == hlOut # <<>>
Out == hlOut[1]

SegTexts(segs) == [k \in 1..Len(segs) |-> segs[k].text]

\* position in the concatenation at which segment k starts
RECURSIVE SegStart(_, _)
SegStart(segs, k) ==
    IF k = 1 THEN 1 ELSE SegStart(segs, k - 1) + Len(segs[k - 1].text)

\* the spans <<first, last>> covered by the marked segments
MarkedSpans(segs) ==
    {<<SegStart(segs, k), SegStart(segs, k) + Len(segs[k].text) - 1>> :
        k \in {j \in 1..Len(segs) : segs[j].mark}}

\* the spans of the literal occurrences of query in text, found left to
\* right from position from, case-insensitively, without overlap
RECURSIVE LiteralSpans(_, _, _)
LiteralSpans(text, query, from) ==
    IF from + Len(query) - 1 > Len(text) THEN {}
    ELSE IF ToLowerCase(SubSeq(text, from, from + Len(query) - 1)) = ToLowerCase(query)
    THEN {<<from, from + Len(query) - 1>>}
            \cup LiteralSpans(text, query, from + Len(query))
    ELSE LiteralSpans(text, query, from + 1)

\* C6: highlight round-trip. The texts of the segments highlightMatch
\* returns, concatenated in order, are the text it was given, for every
\* text and every query (those with '.', '(', ')', '|', '*' included).
C6_RoundTrip ==
    (Rendered /\ ~Out.threw) => Concat(SegTexts(Out.segs)) = hlText

\* C7: for a non-empty query the marked segments are exactly the literal
\* occurrences of the query in the text (left to right, non-overlapping,
\* case-insensitive, no character of the query read as a pattern), in the
\* casing of the text; "Garage Tools" with "tool" gives "Garage ", "Tool"
\* marked, "s".
C7_LiteralOccurrences ==
    (Rendered /\ hlQuery # "" /\ ~Out.threw)
        => /\ MarkedSpans(Out.segs) = LiteralSpans(hlText, hlQuery, 1)
           /\ \A k \in 1..Len(Out.segs) :
                 Out.segs[k].mark =>
                    Out.segs[k].text =
                        SubSeq(hlText, SegStart(Out.segs, k),
                               SegStart(Out.segs, k) + Len(Out.segs[k].text) - 1)
           /\ (hlText = "Garage Tools" /\ hlQuery = "tool")
                 => Out.segs = <<Segment("Garage ", FALSE), Segment("Tool", TRUE),
                                 Segment("s", FALSE)>>

\* C8: with the empty query highlightMatch returns the text as one segment
\* that is not marked.
C8_EmptyQuery ==
    (Rendered /\ hlQuery = "")
        => Out = [threw |-> FALSE, segs |-> <<Segment(hlText, FALSE)>>]

\* a text was rendered with the empty query
C8_Witness ==
    /\ Rendered
    /\ hlQuery = ""
    /\ hlText = "Garage Tools"
    /\ Out.segs = <<Segment("Garage Tools", FALSE)>>

\* C25: highlightMatch returns a segment list for every text and every
\* query that can be typed; it never throws.
C25_HighlightTotal == Rendered => ~Out.threw

---------------------------------------------------------------------------
(* Fuse.js as filterBoxes and filterItems use it:                         *)
(* new Fuse(list, {keys, threshold: 0.4, minMatchCharLength: 1})          *)
(*     .search(term).map(result => result.item)                           *)
(* with the library's defaults location 0, distance 100, isCaseSensitive  *)
(* false, shouldSort true. Scores are kept exactly, in units of           *)
(* 1/(1000 * pattern length); bit arrays are sets of bit positions.       *)

ThresholdLoose == 400 + 200

\* threshold: 0.4 (lines 91 and 280), in thousandths
ThresholdMilli == 400

\* Fuse's default distance
FuseDistance == 100

Abs(x) == IF x < 0 THEN -x ELSE x
Min(a, b) == IF a < b THEN a ELSE b
Max(a, b) == IF a > b THEN a ELSE b

Whitespace == {" ", "\t", "\n", "\r"}

\* String.prototype.trim
RECURSIVE TrimStart(_)
TrimStart(str) ==
    IF str # "" /\ At(str, 1) \in Whitespace THEN TrimStart(SubSeq(str, 2, Len(str))) ELSE str

RECURSIVE TrimEnd(_)
TrimEnd(str) ==
    IF str # "" /\ At(str, Len(str)) \in Whitespace
    THEN TrimEnd(SubSeq(str, 1, Len(str) - 1)) ELSE str

Trim(str) == TrimEnd(TrimStart(str))

\* computeScore(pattern, {errors, currentLocation, expectedLocation}):
\* errors / pattern.length + |expectedLocation - currentLocation| / distance
ComputeScore(len, errors, cur, exp) ==
    1000 * errors + (1000 * len * Abs(exp - cur)) \div FuseDistance

\* createPatternAlphabet(pattern)[c]: bit len - 1 - i for each index i of c
CharMask(pattern, c) ==
    {Len(pattern) - q : q \in {r \in 1..Len(pattern) : At(pattern, r) = c}}

\* an element of a bit array, 0 where the array has none
BitsAt(arr, j) == IF j \in DOMAIN arr THEN arr[j] ELSE {}

ShiftLeft(bits) == {b + 1 : b \in bits}

\* the "exact matches" loop: text.indexOf(pattern, bestLocation) repeated,
\* lowering the threshold to the score of each occurrence found
RECURSIVE ExactThreshold(_, _, _, _)
ExactThreshold(text, pattern, from, thr) ==
    LET idx == IndexOf(text, pattern, from + 1) - 1
    IN  IF idx < 0 THEN thr
        ELSE ExactThreshold(text, pattern, idx + Len(pattern),
                            Min(ComputeScore(Len(pattern), 0, idx, 0), thr))

\* the binary search for the farthest location worth scanning with i errors
RECURSIVE BinSearch(_, _, _, _, _, _)
BinSearch(len, i, binMin, binMid, binMax, thr) ==
    IF binMin < binMid
    THEN IF ComputeScore(len, i, binMid, 0) <= thr
         THEN BinSearch(len, i, binMid, binMid + (binMax - binMid) \div 2, binMax, thr)
         ELSE BinSearch(len, i, binMin, binMin + (binMid - binMin) \div 2, binMid, thr)
    ELSE binMid

\* bitArr[j] = ((bitArr[j + 1] << 1) | 1) & charMatch
ExactBits(text, pattern, j, next) ==
    (ShiftLeft(next) \cup {0}) \cap CharMask(pattern, At(text, j))

\* if (i) bitArr[j] |= ((lastBitArr[j + 1] | lastBitArr[j]) << 1) | 1 | lastBitArr[j + 1]
LevelBits(i, exact, lastNext, lastHere) ==
    IF i = 0 THEN exact
    ELSE exact \cup ShiftLeft(lastNext \cup lastHere) \cup {0} \cup lastNext

\* the body of the loop over j at currentLocation cur = j - 1: a hit
\* (bitArr[j] & mask) sets finalScore; a hit within the threshold lowers
\* the threshold, moves bestLocation and start, and ends the loop when
\* bestLocation <= expectedLocation
ScanAt(c, cur, bj, hit, sc) ==
    LET better == hit /\ sc <= c.thr
    IN  [bits |-> ((cur + 1) :> bj) @@ c.bits,
         thr |-> IF better THEN sc ELSE c.thr,
         best |-> IF better THEN cur ELSE c.best,
         final |-> IF hit THEN sc ELSE c.final,
         start |-> IF better THEN Max(1, -cur) ELSE c.start,
         stop |-> better /\ cur <= 0]

ScanBits(c, len, i, cur, bj) ==
    ScanAt(c, cur, bj, (len - 1) \in bj, ComputeScore(len, i, cur, 0))

\* the loop over j from finish down to start for error level i
RECURSIVE ScanLevel(_, _, _, _, _, _)
ScanLevel(text, pattern, i, j, last, c) ==
    IF j < c.start \/ c.stop THEN c
    ELSE ScanLevel(text, pattern, i, j - 1, last,
             ScanBits(c, Len(pattern), i, j - 1,
                 LevelBits(i, ExactBits(text, pattern, j, BitsAt(c.bits, j + 1)),
                           BitsAt(last, j + 1), BitsAt(last, j))))

\* the loop over the error levels i = 0 .. pattern.length - 1
RECURSIVE BitapLevels(_, _, _, _, _, _, _, _)
RECURSIVE BitapLevelEnd(_, _, _, _, _)
RECURSIVE BitapLevel(_, _, _, _, _, _, _, _, _)

\* after the loop over j: stop when one more error cannot stay within the
\* threshold, else go on with lastBitArr = bitArr
BitapLevelEnd(text, pattern, i, binMid, c) ==
    IF ComputeScore(Len(pattern), i + 1, 0, 0) > c.thr
    THEN [best |-> c.best, final |-> c.final]
    ELSE BitapLevels(text, pattern, i + 1, binMid, c.bits, c.thr, c.best, c.final)

\* one error level, binMid and finish known
BitapLevel(text, pattern, i, binMid, finish, last, thr, best, final) ==
    BitapLevelEnd(text, pattern, i, binMid,
        ScanLevel(text, pattern, i, finish, last,
            [bits |-> (finish + 1) :> {b \in 0..(i - 1) : TRUE},
             thr |-> thr, best |-> best, final |-> final,
             start |-> Max(1, 1 - binMid), stop |-> FALSE]))

BitapFinish(text, pattern, binMid) == Min(binMid, Len(text)) + Len(pattern)

BitapLevelAt(text, pattern, i, binMid, last, thr, best, final) ==
    BitapLevel(text, pattern, i, binMid, BitapFinish(text, pattern, binMid),
               last, thr, best, final)

BitapLevels(text, pattern, i, binMax, last, thr, best, final) ==
    IF i >= Len(pattern) THEN [best |-> best, final |-> final]
    ELSE BitapLevelAt(text, pattern, i,
                      BinSearch(Len(pattern), i, 0, binMax, binMax, thr),
                      last, thr, best, final)

\* the result of search(): isMatch, and the score, which is the last score
\* computed at a hit and at least 0.001
BitapResult(len, r) == [isMatch |-> r.best >= 0, score |-> Max(len, r.final)]

\* bitap search(text, pattern, alphabet, options)
BitapSearch(text, pattern) ==
    BitapResult(Len(pattern),
        BitapLevels(text, pattern, 0, Len(pattern) + Len(text), <<>>,
                    ExactThreshold(text, pattern, 0, ThresholdMilli * Len(pattern)),
                    -1, 1000 * Len(pattern)))

\* searchIn on the lower-cased pattern and text: score 0 when they are equal
SearchLowered(pat, txt) ==
    IF pat = txt THEN [isMatch |-> TRUE, score |-> 0] ELSE BitapSearch(txt, pat)

\* BitapSearch.searchIn(text) for new BitapSearch(pattern)
SearchIn(pattern, text) == SearchLowered(ToLowerCase(pattern), ToLowerCase(text))

\* isBlank(value): a blank field is not indexed
IsBlank(value) == Trim(value) = ""

\* number of words of a field (value.match(/[^ ]+/g).length)
RECURSIVE NumTokens(_)
NumTokens(value) ==
    LET sp == IndexOfChar(value, " ", 1)
    IN  IF value = "" THEN 0
        ELSE IF At(value, 1) = " " THEN NumTokens(SubSeq(value, 2, Len(value)))
        ELSE IF sp = 0 THEN 1
        ELSE 1 + NumTokens(SubSeq(value, sp + 1, Len(value)))

\* twice the field-length norm 1/sqrt(words): 2 for one word, 1 for four
\* words (the record fields of this model have one or four words)
TwiceNorm(value) == IF NumTokens(value) = 1 THEN 2 ELSE 1

\* ---- record inputs of the two filtered views
Box1 == [id |-> "b1", name |-> "tools", location |-> "Garage", description |-> ""]
Box2 == [id |-> "b2", name |-> "pots", location |-> "attic", description |-> "a set of pans"]
Box3 == [id |-> "b3", name |-> "tapes", location |-> "", description |-> ""]
BoxUniverse == {Box1, Box2, Box3}

Item1 == [id |-> "i1", name |-> "tape", details |-> ""]
Item2 == [id |-> "i2", name |-> "pot", details |-> "a pot of tea"]
Item3 == [id |-> "i3", name |-> "stapler", details |-> "spare"]
ItemUniverse == {Item1, Item2, Item3}

MaxBoxes == 3
MaxItems == 2
MaxTermLen == 2

\* the sequences of at most n distinct records of a universe
RECURSIVE Snapshots(_, _)
Snapshots(universe, n) ==
    IF n = 0 THEN {<<>>}
    ELSE LET shorter == Snapshots(universe, n - 1)
         IN  shorter \cup
             UNION {{Append(q, r) : r \in {u \in universe : \A k \in DOMAIN q : q[k] # u}} :
                        q \in {x \in shorter : Len(x) = n - 1}}

BoxSnapshots == Snapshots(BoxUniverse, MaxBoxes)
ItemSnapshots == Snapshots(ItemUniverse, MaxItems)

\* what can be typed into a search box
TermAlphabet == {" ", "a", "t"}
Terms == TextsOf(TermAlphabet, MaxTermLen)

\* what can be typed into the location filter
LocationFilters == {"", "gar", "A"}

BoxKeysWithId == <<"name", "location", "description", "id">>

\* keys: ['name', 'location', 'description'] (line 90)
BoxKeys == <<"name", "location", "description">>

\* keys: ['name', 'details'] (line 279)
ItemKeys == <<"name", "details">>

FieldValues ==
    {b[BoxKeys[k]] : b \in BoxUniverse, k \in DOMAIN BoxKeys}
        \cup {i[ItemKeys[k]] : i \in ItemUniverse, k \in DOMAIN ItemKeys}

\* ---- search terms with one typing slip: two adjacent letters swapped, or
\* one letter replaced
TypoLetters == {"x"}

SwapAt(str, k) ==
    SubSeq(str, 1, k - 1) \o At(str, k + 1) \o At(str, k) \o SubSeq(str, k + 2, Len(str))

Swaps(str) ==
    {SwapAt(str, k) : k \in {j \in 1..(Len(str) - 1) :
                                /\ At(str, j) # " "
                                /\ At(str, j + 1) # " "
                                /\ At(str, j) # At(str, j + 1)}}

SubstAt(str, k, c) == SubSeq(str, 1, k - 1) \o c \o SubSeq(str, k + 1, Len(str))

Substitutions(str) ==
    {SubstAt(str, k, c) : k \in {j \in 1..Len(str) : At(str, j) # " "},
                          c \in TypoLetters} \ {str}

Typos(str) == Swaps(str) \cup Substitutions(str)

\* ... of the name of a record
TypoTerms == UNION {Typos(r.name) : r \in BoxUniverse \cup ItemUniverse}

\* search terms that are the identifier of a record
IdTerms == {r.id : r \in BoxUniverse \cup ItemUniverse}

\* the search terms of the filter runs observed one at a time
MatchTerms == Terms \cup TypoTerms \cup IdTerms

\* searchIn tabulated over the patterns and field values of the inputs (@@
\* makes the table an explicit one, computed once)
SearchInOf ==
    [pv \in (MatchTerms \ {""}) \X FieldValues |-> SearchIn(pv[1], pv[2])] @@ <<>>

\* ---- natural numbers beyond the machine integers, as little-endian
\* sequences of digits in base 10000
RECURSIVE BigMul(_, _, _)
BigMul(n, m, carry) ==
    IF n = <<>>
    THEN IF carry = 0 THEN <<>>
         ELSE <<carry % 10000>> \o BigMul(<<>>, m, carry \div 10000)
    ELSE LET v == Head(n) * m + carry
         IN  <<v % 10000>> \o BigMul(Tail(n), m, v \div 10000)

RECURSIVE BigLessFrom(_, _, _)
BigLessFrom(a, b, k) ==
    IF k = 0 THEN FALSE
    ELSE IF a[k] # b[k] THEN a[k] < b[k]
    ELSE BigLessFrom(a, b, k - 1)

BigLess(a, b) ==
    IF Len(a) # Len(b) THEN Len(a) < Len(b) ELSE BigLessFrom(a, b, Len(a))

\* Fuse's computeScore(matches): the product over the matching keys of
\* Math.pow(score === 0 ? Number.EPSILON : score, weight * norm), the keys
\* having equal weights 1/K. Kept as this product raised to the power 2K:
\* the number of EPSILON factors (each smaller than any product of the
\* other scores) and the numerator over (1000 * pattern length)^(2K).
ScoreWith(acc, r, twiceNorm, one) ==
    LET counts == r.isMatch /\ r.score # 0
        a == IF counts THEN r.score ELSE one
        b == IF counts /\ twiceNorm = 2 THEN r.score ELSE one
    IN  [matched |-> acc.matched \/ r.isMatch,
         eps |-> acc.eps + (IF r.isMatch /\ r.score = 0 THEN 1 ELSE 0),
         num |-> BigMul(BigMul(acc.num, a, 0), b, 0)]

\* _findMatches for one key of one record: nothing for a blank value
FindMatches(pattern, value) ==
    IF IsBlank(value) THEN [isMatch |-> FALSE, score |-> 0]
    ELSE SearchInOf[<<pattern, value>>]

ScoreKey(acc, pattern, value) ==
    ScoreWith(acc, FindMatches(pattern, value), TwiceNorm(value), 1000 * Len(pattern))

RECURSIVE ScoreKeys(_, _, _, _, _)
ScoreKeys(rec, keys, pattern, k, acc) ==
    IF k > Len(keys) THEN acc
    ELSE ScoreKeys(rec, keys, pattern, k + 1, ScoreKey(acc, pattern, rec[keys[k]]))

RecordScore(rec, keys, pattern) ==
    ScoreKeys(rec, keys, pattern, 1, [matched |-> FALSE, eps |-> 0, num |-> <<1>>])

IndexBefore(a, b) == a.idx < b.idx

ScoreOnlyBefore(a, b) ==
    IF a.eps # b.eps THEN a.eps > b.eps ELSE BigLess(a.num, b.num)

\* the default sortFn: by score, then by index in the list
ScoreBefore(a, b) ==
    IF a.eps # b.eps THEN a.eps > b.eps
    ELSE IF a.num # b.num THEN BigLess(a.num, b.num)
    ELSE a.idx < b.idx

RECURSIVE InsertResult(_, _)
InsertResult(sorted, r) ==
    IF sorted = <<>> THEN <<r>>
    ELSE IF ScoreBefore(r, Head(sorted)) THEN <<r>> \o sorted
    ELSE <<Head(sorted)>> \o InsertResult(Tail(sorted), r)

\* results.push({idx, item, matches}) for a record with a matching key
PushResult(sorted, k, item, sc) ==
    IF sc.matched
    THEN InsertResult(sorted, [idx |-> k, item |-> item, eps |-> sc.eps, num |-> sc.num])
    ELSE sorted

RECURSIVE FuseResults(_, _, _, _, _)
FuseResults(list, keys, pattern, k, sorted) ==
    IF k > Len(list) THEN sorted
    ELSE FuseResults(list, keys, pattern, k + 1,
             PushResult(sorted, k, list[k], RecordScore(list[k], keys, pattern)))

\* .map(result => result.item)
ItemsOf(found) == [k \in 1..Len(found) |-> found[k].item]

\* new Fuse(list, {keys, ...}).search(pattern).map(result => result.item)
FuseSearch(list, keys, pattern) ==
    ItemsOf(FuseResults(list, keys, pattern, 1, <<>>))

\* results.sort(sortFn): Array.prototype.sort may leave the results in any
\* arrangement in which no result stands before one that sortFn puts
\* before it
SortOutcomes(found) ==
    {p \in {[k \in DOMAIN found |-> found[f[k]]] : f \in Permutations(DOMAIN found)} :
         \A i, j \in DOMAIN p : i < j => ~ScoreBefore(p[j], p[i])}

\* the lists search(pattern).map(result => result.item) can be
FuseSearchOutcomes(list, keys, pattern) ==
    {ItemsOf(p) : p \in SortOutcomes(FuseResults(list, keys, pattern, 1, <<>>))}

LocationFilteredExactCase(filtered, filter) ==
    IF filter # ""
    THEN SelectSeq(filtered, LAMBDA box : Includes(box.location, filter))
    ELSE filtered

\* filterBoxes without the search branch
LocationFiltered(filtered, filter) ==
    IF filter # ""
    THEN SelectSeq(filtered,
             LAMBDA box : Includes(ToLowerCase(box.location), ToLowerCase(filter)))
    ELSE filtered

\* BoxList.filterBoxes: the value it gives to setFilteredBoxes
FilterBoxes(list, term, filter) ==
    LocationFiltered(IF term # "" THEN FuseSearch(list, BoxKeys, term) ELSE list, filter)

\* BoxDetail.filterItems: the value it gives to setFilteredItems
FilterItems(list, term) ==
    IF term = "" THEN list ELSE FuseSearch(list, ItemKeys, term)

\* the values one call of filterBoxes can give to setFilteredBoxes
FilterBoxesOutcomes(list, term, filter) ==
    {LocationFiltered(f, filter) :
         f \in (IF term # "" THEN FuseSearchOutcomes(list, BoxKeys, term) ELSE {list})}

\* the values one call of filterItems can give to setFilteredItems
FilterItemsOutcomes(list, term) ==
    IF term = "" THEN {list} ELSE FuseSearchOutcomes(list, ItemKeys, term)

SortedInPlace(list, out) == out

\* the input list after a call: Fuse only reads its documents, and search,
\* map and filter return new arrays (lines 95, 98, 283); filtered is
\* reassigned, never written into
ListAfter(list, out) == list

---------------------------------------------------------------------------
(* BoxList (route "/") and BoxDetail (route "/box/:boxId"). Each handler  *)
(* is taken together with the effect its state change triggers:           *)
(* useEffect(filterBoxes, [boxes, searchTerm, locationFilter]) and         *)
(* useEffect(filterItems, [items, searchTerm]). Leaving a route unmounts   *)
(* its component, whose state starts afresh at the next mount.            *)

HomeRoute == "/"

StaleList(current, previous) == previous

\* the list the effect's filter indexes: new Fuse(boxes, ...) (line 89) and
\* new Fuse(items, ...) (line 278) are built inside the effect from the
\* state of the render the effect belongs to, which is the current list
IndexedList(current, previous) == current

InitFilter ==
    /\ IdleScan
    /\ IdleHighlight
    /\ IdleViews

\* fetchBoxes resolved with a list of boxes: setBoxes(response.data)
FetchBoxes(snapshot) ==
    /\ route = HomeRoute
    /\ boxes' = snapshot
    /\ filteredBoxes' = FilterBoxes(IndexedList(snapshot, boxes), listSearchTerm, locationFilter)
    /\ UNCHANGED <<route, listSearchTerm, locationFilter, detailVars, notFilter>>

\* the search input of BoxList: onChange={(e) => setSearchTerm(e.target.value)}
SetSearchTerm(value) ==
    /\ route = HomeRoute
    /\ listSearchTerm' = value
    /\ filteredBoxes' = FilterBoxes(boxes, value, locationFilter)
    /\ UNCHANGED <<route, boxes, locationFilter, detailVars, notFilter>>

\* the location input: onChange={(e) => setLocationFilter(e.target.value)}
SetLocationFilter(value) ==
    /\ route = HomeRoute
    /\ locationFilter' = value
    /\ filteredBoxes' = FilterBoxes(boxes, listSearchTerm, value)
    /\ UNCHANGED <<route, boxes, listSearchTerm, detailVars, notFilter>>

\* a box card: onClick={() => navigate(`/box/${box.id}`)}
OpenBox(k) ==
    /\ route = HomeRoute
    /\ k \in DOMAIN filteredBoxes
    /\ route' = LocatorUrl("", filteredBoxes[k].id)
    /\ boxes' = <<>>
    /\ filteredBoxes' = <<>>
    /\ listSearchTerm' = ""
    /\ locationFilter' = ""
    /\ UNCHANGED <<detailVars, notFilter>>

\* fetchBoxDetails resolved: setItems(response.data.items)
FetchBoxDetails(snapshot) ==
    /\ route # HomeRoute
    /\ items' = snapshot
    /\ filteredItems' = FilterItems(IndexedList(snapshot, items), detailSearchTerm)
    /\ UNCHANGED <<route, detailSearchTerm, listVars, notFilter>>

\* the search input of BoxDetail
SetItemSearchTerm(value) ==
    /\ route # HomeRoute
    /\ detailSearchTerm' = value
    /\ filteredItems' = FilterItems(items, value)
    /\ UNCHANGED <<route, items, listVars, notFilter>>

\* "Back to Boxes": onClick={() => navigate('/')}
BackToBoxes ==
    /\ route # HomeRoute
    /\ route' = HomeRoute
    /\ items' = <<>>
    /\ filteredItems' = <<>>
    /\ detailSearchTerm' = ""
    /\ UNCHANGED <<listVars, notFilter>>

NextFilter ==
    \/ \E snapshot \in BoxSnapshots : FetchBoxes(snapshot)
    \/ \E value \in Terms : SetSearchTerm(value)
    \/ \E value \in LocationFilters : SetLocationFilter(value)
    \/ \E k \in 1..MaxBoxes : OpenBox(k)
    \/ \E snapshot \in ItemSnapshots : FetchBoxDetails(snapshot)
    \/ \E value \in Terms : SetItemSearchTerm(value)
    \/ BackToBoxes

SpecFilter == InitFilter /\ [][NextFilter]_vars

\* C9: when the search term is empty or whitespace-only (and no location
\* filter is set), filterBoxes and filterItems keep every record, in the
\* original order: the filtered list is the loaded list.
C9_BlankTermKeepsAll ==
    /\ (route = HomeRoute /\ Trim(listSearchTerm) = "" /\ locationFilter = "")
           => filteredBoxes = boxes
    /\ (route # HomeRoute /\ Trim(detailSearchTerm) = "")
           => filteredItems = items

\* C15: whatever refetches and edits of the search term and of the location
\* filter came before, the displayed filtered list is the filter of the
\* current list with the current term (and location filter): on the box
\* list for boxes, on the box detail view for items.
C15_NoStaleIndex ==
    /\ route = HomeRoute
           => filteredBoxes = FilterBoxes(boxes, listSearchTerm, locationFilter)
    /\ route # HomeRoute
           => filteredItems = FilterItems(items, detailSearchTerm)

\* a fuzzy search over a loaded list that keeps some boxes and drops others
C15_Witness ==
    /\ route = HomeRoute
    /\ listSearchTerm # ""
    /\ filteredBoxes # <<>>
    /\ Len(filteredBoxes) < Len(boxes)
    /\ filteredBoxes = FilterBoxes(boxes, listSearchTerm, locationFilter)

---------------------------------------------------------------------------
(* GlobalSearch, the dialog Navigation shows while showGlobalSearch. The  *)
(* server's answer to GET /search is an input: any list of results.       *)

\* the boxes the server holds when it answers: id and name
ServerBoxes == {[id |-> "b2", name |-> "pots"]}

\* boxLookup(item.boxId): the boxes with this id
BoxLookup(id) == {b \in ServerBoxes : b.id = id}

\* the placeholder for the parent of an orphaned item
UnresolvedName == "Unknown"

ParentBoxNameUnchecked(id) ==
    IF BoxLookup(id) # {} THEN (CHOOSE b \in BoxLookup(id) : TRUE).name ELSE ""

\* the parent box's display name the server puts into an item result: the
\* box's name, or the placeholder when the box is missing
ParentBoxName(id) ==
    IF BoxLookup(id) # {} THEN (CHOOSE b \in BoxLookup(id) : TRUE).name
    ELSE UnresolvedName

BoxResult == [type |-> "box", id |-> "b2", name |-> "pots", box_id |-> "", box_name |-> ""]
ItemResult ==
    [type |-> "item", id |-> "i2", name |-> "pot", box_id |-> "b2",
     box_name |-> ParentBoxName("b2")]

\* an item whose box is gone
OrphanResult ==
    [type |-> "item", id |-> "i4", name |-> "pot lid", box_id |-> "b9",
     box_name |-> ParentBoxName("b9")]
ResultUniverse == {BoxResult, ItemResult, OrphanResult}

\* <p>In box: {result.box_name}</p> (line 905): the name shown
ParentShown(result) == result.box_name

\* the rows of the result list: "Searching..." replaces them while loading
DisplayedRows ==
    IF showGlobalSearch /\ ~loading
    THEN [k \in DOMAIN results |->
             [type |-> results[k].type, name |-> results[k].name,
              parent |-> IF results[k].type = "box" THEN ""
                         ELSE ParentShown(results[k])]]
    ELSE <<>>

MaxResults == 2
MaxPending == 2

\* the lists response.data can be
ResultLists == Snapshots(ResultUniverse, MaxResults)

\* every box and every item of the collections, boxes first
EveryRecord == <<BoxResult, ItemResult>>

\* what can be typed into the dialog's input
GlobalTerms == {"", " ", "pot"}

ShouldSearchAlways(term) == TRUE

\* handleSearch goes on unless: if (!searchTerm.trim()) return;
ShouldSearch(term) == Trim(term) # ""

RemoveAt(q, k) == SubSeq(q, 1, k - 1) \o SubSeq(q, k + 1, Len(q))

InitSearch ==
    /\ IdleScan
    /\ IdleHighlight
    /\ IdleViews

\* Navigation: onClick={() => setShowGlobalSearch(true)}
OpenGlobalSearch ==
    /\ ~showGlobalSearch
    /\ showGlobalSearch' = TRUE
    /\ UNCHANGED <<globalSearchTerm, results, loading, pending, searchLog, raceVars, route,
                   notSearch>>

\* onClose={() => setShowGlobalSearch(false)}: the dialog is unmounted, its
\* state is dropped and what its requests bring later reaches nothing
CloseGlobalSearch ==
    /\ showGlobalSearch
    /\ showGlobalSearch' = FALSE
    /\ globalSearchTerm' = ""
    /\ results' = <<>>
    /\ loading' = FALSE
    /\ pending' = <<>>
    /\ searchLog' = NoSubmit
    /\ pendingLatest' = <<>>
    /\ latestAnswer' = NoAnswer
    /\ UNCHANGED <<route, notSearch>>

\* onChange={(e) => setSearchTerm(e.target.value)}
SetGlobalSearchTerm(value) ==
    /\ showGlobalSearch
    /\ globalSearchTerm' = value
    /\ UNCHANGED <<showGlobalSearch, results, loading, pending, searchLog, raceVars, route,
                   notSearch>>

\* handleSearch up to its await: the Search button or the Enter key
HandleSearch ==
    /\ showGlobalSearch
    /\ IF ShouldSearch(globalSearchTerm)
       THEN /\ Len(pending) < MaxPending
            /\ loading' = TRUE
            /\ pending' = Append(pending, globalSearchTerm)
            /\ pendingLatest' = Append([k \in DOMAIN pendingLatest |-> FALSE], TRUE)
            /\ latestAnswer' = NoAnswer
            /\ searchLog' = [done |-> TRUE, term |-> globalSearchTerm, sent |-> TRUE,
                             shown |-> results]
       ELSE /\ UNCHANGED <<loading, pending, raceVars>>
            /\ searchLog' = [done |-> TRUE, term |-> globalSearchTerm, sent |-> FALSE,
                             shown |-> results]
    /\ UNCHANGED <<showGlobalSearch, globalSearchTerm, results, route, notSearch>>

\* handleSearch after its await, the request fulfilled:
\* setResults(response.data); setLoading(false)
SearchResolved(k, data) ==
    /\ k \in DOMAIN pending
    /\ results' = data
    /\ loading' = FALSE
    /\ pending' = RemoveAt(pending, k)
    /\ pendingLatest' = RemoveAt(pendingLatest, k)
    /\ latestAnswer' = IF pendingLatest[k] THEN [done |-> TRUE, ok |-> TRUE, data |-> data]
                       ELSE latestAnswer
    /\ UNCHANGED <<showGlobalSearch, globalSearchTerm, searchLog, route, notSearch>>

\* handleSearch after its await, the request rejected:
\* console.error(...); setLoading(false)
SearchRejected(k) ==
    /\ k \in DOMAIN pending
    /\ loading' = FALSE
    /\ pending' = RemoveAt(pending, k)
    /\ pendingLatest' = RemoveAt(pendingLatest, k)
    /\ latestAnswer' = IF pendingLatest[k] THEN [done |-> TRUE, ok |-> FALSE, data |-> <<>>]
                       ELSE latestAnswer
    /\ UNCHANGED <<showGlobalSearch, globalSearchTerm, results, searchLog, route, notSearch>>

\* handleResultClick(result) on a listed result (the list is rendered
\* while not loading): navigate to the box, then onClose()
HandleResultClick(k) ==
    /\ showGlobalSearch
    /\ ~loading
    /\ k \in DOMAIN results
    /\ route' = LocatorUrl("", IF results[k].type = "box" THEN results[k].id
                               ELSE results[k].box_id)
    /\ showGlobalSearch' = FALSE
    /\ globalSearchTerm' = ""
    /\ results' = <<>>
    /\ loading' = FALSE
    /\ pending' = <<>>
    /\ searchLog' = NoSubmit
    /\ pendingLatest' = <<>>
    /\ latestAnswer' = NoAnswer
    /\ UNCHANGED notSearch

\* C18: an item result whose parent box is missing is listed like any other
\* result, and the parent name shown for it is the placeholder, not an
\* empty name.
C18_OrphanPlaceholder ==
    (showGlobalSearch /\ ~loading) =>
        /\ Len(DisplayedRows) = Len(results)
        /\ \A k \in DOMAIN results :
               (results[k].type = "item" /\ BoxLookup(results[k].box_id) = {})
                   => /\ DisplayedRows[k].name = results[k].name
                      /\ DisplayedRows[k].parent # ""

\* a result list with an orphaned item is displayed
C18_Witness ==
    /\ showGlobalSearch
    /\ ~loading
    /\ \E k \in DOMAIN results :
           /\ results[k].type = "item"
           /\ BoxLookup(results[k].box_id) = {}
           /\ DisplayedRows[k].parent = UnresolvedName

\* C22: when a search was submitted while an earlier one was in flight,
\* then once every response has arrived the results displayed are the
\* response to the search submitted last.
C22_LatestSearchWins ==
    (showGlobalSearch /\ pending = <<>> /\ latestAnswer.done /\ latestAnswer.ok)
        => results = latestAnswer.data

\* C23: loading holds whenever a search request is in flight, and does not
\* hold once every request issued has settled.
C23_LoadingTracksRequests ==
    showGlobalSearch => (loading <=> pending # <<>>)

NextSearch ==
    \/ OpenGlobalSearch
    \/ CloseGlobalSearch
    \/ \E value \in GlobalTerms : SetGlobalSearchTerm(value)
    \/ HandleSearch
    \/ \E k \in 1..MaxPending, data \in ResultLists : SearchResolved(k, data)
    \/ \E k \in 1..MaxPending : SearchRejected(k)
    \/ \E k \in 1..MaxResults : HandleResultClick(k)

SpecSearch == InitSearch /\ [][NextSearch]_vars

---------------------------------------------------------------------------
(* One filter at a time: filterBoxes or filterItems run, possibly again,  *)
(* on a list, a search term and a location filter that stay as they are.  *)

MaxRuns == 2

InitMatch ==
    /\ IdleScan
    /\ IdleHighlight
    /\ IdleList
    /\ IdleDetail
    /\ IdleSearch
    /\ IdleItems
    /\ IdleCreate
    /\ IdleRace
    /\ IdleFetch
    /\ IdleCsv
    /\ IdleBoot
    /\ matchKind \in {"boxes", "items"}
    /\ matchList \in IF matchKind = "boxes" THEN BoxSnapshots ELSE ItemSnapshots
    /\ matchTerm \in MatchTerms
    /\ matchLocation \in IF matchKind = "boxes" THEN LocationFilters ELSE {""}
    /\ matchOut = <<>>

\* filterBoxes() on the list: what it reads stays, what it sets is recorded
RunFilterBoxes ==
    /\ matchKind = "boxes"
    /\ Len(matchOut) < MaxRuns
    /\ \E out \in FilterBoxesOutcomes(matchList, matchTerm, matchLocation) :
           /\ matchOut' = Append(matchOut, out)
           /\ matchList' = ListAfter(matchList, out)
    /\ UNCHANGED <<matchKind, matchTerm, matchLocation, notMatch>>

\* one call of filterItems
RunFilterItems ==
    /\ matchKind = "items"
    /\ Len(matchOut) < MaxRuns
    /\ \E out \in FilterItemsOutcomes(matchList, matchTerm) :
           /\ matchOut' = Append(matchOut, out)
           /\ matchList' = ListAfter(matchList, out)
    /\ UNCHANGED <<matchKind, matchTerm, matchLocation, notMatch>>

NextMatch ==
    \/ RunFilterBoxes
    \/ RunFilterItems

SpecMatch == InitMatch /\ [][NextMatch]_vars

\* the keys of the filter that ran
MatchKeys == IF matchKind = "boxes" THEN BoxKeys ELSE ItemKeys

\* the filter has run, once, on a non-empty term
Matched == Len(matchOut) = 1 /\ matchTerm # ""

InOutput(rec) == \E j \in DOMAIN matchOut[1] : matchOut[1][j] = rec

\* the term is a field of the record with one letter replaced or two
\* adjacent letters swapped
IsTypoOf(rec) == \E k \in DOMAIN MatchKeys : matchTerm \in Typos(rec[MatchKeys[k]])

\* C11: every record that has a searched field differing from the search
\* term by a single-letter typo is in the filter's result, whatever the length
\* of the term (no location filter set).
C11_TypoTolerance ==
    (Matched /\ matchLocation = "")
        => \A k \in DOMAIN matchList : IsTypoOf(matchList[k]) => InOutput(matchList[k])

\* the position in the input list of the j-th record of the output
InputPos(j) == CHOOSE k \in DOMAIN matchList : matchList[k] = matchOut[1][j]

\* Fuse's score of the j-th record of the output
OutScore(j) == RecordScore(matchOut[1][j], MatchKeys, matchTerm)

ScoreLess(a, b) == a.eps > b.eps \/ (a.eps = b.eps /\ BigLess(a.num, b.num))

ScoreEqual(a, b) == a.eps = b.eps /\ a.num = b.num

InOrder(sa, sb, pa, pb) == ScoreLess(sa, sb) \/ (ScoreEqual(sa, sb) /\ pa < pb)

\* C12: in the list a filter returns for a non-empty term, a result that
\* comes before another has a score that is not greater, and results of equal
\* score come in the order of their positions in the input list.
C12_Ordering ==
    Matched => \A i, j \in DOMAIN matchOut[1] :
                   i < j => InOrder(OutScore(i), OutScore(j), InputPos(i), InputPos(j))

\* a record placed before one that precedes it in the input, and two
\* records of equal score
C12_Witness ==
    /\ Matched
    /\ \E i, j \in DOMAIN matchOut[1] : i < j /\ InputPos(i) > InputPos(j)
    /\ \E i, j \in DOMAIN matchOut[1] : i < j /\ ScoreEqual(OutScore(i), OutScore(j))

\* the scores Fuse computes for the searched fields of a record that are
\* not blank, in units of 1/(1000 * length of the term)
FieldScores(rec) ==
    {FindMatches(matchTerm, rec[MatchKeys[k]]).score :
         k \in {j \in DOMAIN MatchKeys : ~IsBlank(rec[MatchKeys[j]])}}

\* a searched field of the record has a score not above 0.4
WithinThreshold(rec) ==
    \E sc \in FieldScores(rec) : 10 * sc <= 4 * 1000 * Len(matchTerm)

EligibleKeys ==
    IF matchKind = "boxes" THEN {"name", "location", "description"}
    ELSE {"name", "details"}

\* the term resembles a field of the record: the field is not blank and the
\* fuzzy comparison of the term with it succeeds
SimilarIn(rec, key) == ~IsBlank(rec[key]) /\ SearchIn(matchTerm, rec[key]).isMatch

NoEligibleSimilarity(rec) == \A key \in EligibleKeys : ~SimilarIn(rec, key)

\* C14: for a non-empty term, a record that resembles the term in none of
\* name, location, description (boxes) or name, details (items) is not in
\* the output of the filter, whatever its other fields (its id) hold.
C14_OnlyEligibleFields ==
    Matched =>
        \A k \in DOMAIN matchList :
            NoEligibleSimilarity(matchList[k]) => ~InOutput(matchList[k])

\* the term is the id of a record of the list, and the record is dropped
C14_Witness ==
    /\ Matched
    /\ \E k \in DOMAIN matchList :
           /\ SimilarIn(matchList[k], "id")
           /\ NoEligibleSimilarity(matchList[k])
           /\ ~InOutput(matchList[k])

\* C16: a call of filterBoxes or filterItems leaves the input list (its
\* length, its order, every record), the term and the location filter as
\* they were; the filtered list is all it changes.
C16_NoSideEffects ==
    [][/\ matchList' = matchList
       /\ UNCHANGED <<matchKind, matchTerm, matchLocation, notMatch>>]_vars

\* a fuzzy search has run and returned a list other than its input
C16_Witness ==
    /\ Len(matchOut) >= 1
    /\ matchTerm # ""
    /\ matchOut[1] # <<>>
    /\ matchOut[1] # matchList

\* C17: two calls of the filter on the same list, term and location filter
\* give the same list, in the same order.
C17_Determinism == Len(matchOut) = 2 => matchOut[1] = matchOut[2]

\* two calls of a fuzzy search whose output holds records of equal score
C17_Witness ==
    /\ Len(matchOut) = 2
    /\ matchTerm # ""
    /\ matchOut[1] = matchOut[2]
    /\ \E i, j \in DOMAIN matchOut[1] :
           i < j /\ ScoreEqual(OutScore(i), OutScore(j))

\* the list the location filter is applied to
FuzzyStage ==
    IF matchTerm # "" THEN FuseSearch(matchList, BoxKeys, matchTerm) ELSE matchList

PosIn(list, rec) == CHOOSE k \in DOMAIN list : list[k] = rec

\* sub holds elements of full, in the order they have in full
OrderedSubList(sub, full) ==
    /\ \A j \in DOMAIN sub : \E k \in DOMAIN full : full[k] = sub[j]
    /\ \A i, j \in DOMAIN sub : i < j => PosIn(full, sub[i]) < PosIn(full, sub[j])

\* the location of the box contains the filter text, whatever the case
LocationContains(rec) ==
    \E p \in 1..(Len(rec.location) - Len(matchLocation) + 1) :
        ToLowerCase(SubSeq(rec.location, p, p + Len(matchLocation) - 1))
            = ToLowerCase(matchLocation)

\* C27: the list filterBoxes displays is an order-preserving sub-list of the
\* fuzzy-search result (of all boxes when the term is empty); with a
\* location filter, a box of that result is displayed exactly when its
\* location contains the filter text case-insensitively, and no box without
\* a location is displayed.
C27_LocationComposition ==
    (matchKind = "boxes" /\ Len(matchOut) = 1) =>
        /\ OrderedSubList(matchOut[1], FuzzyStage)
        /\ matchLocation # "" =>
               /\ \A k \in DOMAIN FuzzyStage :
                      InOutput(FuzzyStage[k]) <=> LocationContains(FuzzyStage[k])
               /\ \A j \in DOMAIN matchOut[1] : matchOut[1][j].location # ""

\* a fuzzy search and a location filter in capitals that keeps a box and
\* drops others
C27_Witness ==
    /\ matchKind = "boxes"
    /\ Len(matchOut) = 1
    /\ matchTerm # ""
    /\ matchLocation = "A"
    /\ matchOut[1] # <<>>
    /\ Len(matchOut[1]) < Len(FuzzyStage)

---------------------------------------------------------------------------
(* The item forms of BoxDetail: AddItemModal (create) and the inline edit  *)
(* row (update). A request is recorded with the quantity it carries; a     *)
(* number is [nan |-> FALSE, n |-> the integer], NaN is QNaN.              *)

QNaN == [nan |-> TRUE, n |-> 0]
Num(n) == [nan |-> FALSE, n |-> n]

Digits == "0123456789"
DigitSet == {At(Digits, i) : i \in 1..Len(Digits)}

\* the length of the longest prefix of digits
RECURSIVE DigitPrefixLen(_)
DigitPrefixLen(str) ==
    IF str # "" /\ At(str, 1) \in DigitSet
    THEN 1 + DigitPrefixLen(SubSeq(str, 2, Len(str)))
    ELSE 0

\* the value of a string of digits
RECURSIVE DigitsValue(_)
DigitsValue(str) ==
    IF str = "" THEN 0
    ELSE 10 * DigitsValue(SubSeq(str, 1, Len(str) - 1))
             + (IndexOfChar(Digits, At(str, Len(str)), 1) - 1)

\* the digits parseInt reads after white space and a sign
ParseUnsigned(negative, rest) ==
    IF DigitPrefixLen(rest) = 0 THEN QNaN
    ELSE Num((IF negative THEN -1 ELSE 1)
                 * DigitsValue(SubSeq(rest, 1, DigitPrefixLen(rest))))

ParseTrimmed(str) ==
    IF At(str, 1) \in {"-", "+"}
    THEN ParseUnsigned(At(str, 1) = "-", SubSeq(str, 2, Len(str)))
    ELSE ParseUnsigned(FALSE, str)

\* parseInt(string) on decimal input
ParseInt(str) == ParseTrimmed(TrimStart(str))

\* parseInt(e.target.value) || 1 (line 647): NaN and 0 are falsy
OrOne(q) == IF q.nan \/ q.n = 0 THEN 1 ELSE q.n

\* the quantity onChange stores in formData
FormQuantity(str) == OrOne(ParseInt(str))

\* the form's constraint validation, which precedes the submit event:
\* the name input is required (line 637), the quantity input has min="1"
\* (line 645)
PassesValidation(name, quantity) == name # "" /\ quantity >= 1

\* what the value of a type="number" input can be
QuantityTexts == {"", "0", "3", "-2", "1.5"}

\* what can be typed into the name input
ItemNames == {"", " ", "tape"}

MaxRequests == 2

\* the box whose detail page is shown
ShownBox == "b1"

InitItems ==
    /\ origin = "https://example.local"
    /\ route = LocatorUrl("", ShownBox)
    /\ showScanner = FALSE
    /\ qrCodeUrl = NoPayload
    /\ scanLog = NoScan
    /\ IdleHighlight
    /\ IdleList
    /\ IdleSearch
    /\ IdleMatch
    /\ IdleItems
    /\ IdleCreate
    /\ IdleRace
    /\ IdleFetch
    /\ IdleCsv
    /\ IdleBoot
    /\ items \in ItemSnapshots
    /\ filteredItems = FilterItems(items, "")
    /\ detailSearchTerm = ""

\* the row of the item being edited is rendered
EditRowShown ==
    \E k \in DOMAIN filteredItems : filteredItems[k].id = editingItem

\* "Add Item": onClick={() => setShowAddItemModal(true)}
OpenAddItem ==
    /\ route # HomeRoute
    /\ ~showAddItemModal
    /\ showAddItemModal' = TRUE
    /\ UNCHANGED <<formName, formQuantity, editingItem, itemRequests, items, filteredItems,
                   notItems>>

\* onChange of the name input (line 636)
SetFormName(value) ==
    /\ showAddItemModal
    /\ formName' = value
    /\ UNCHANGED <<showAddItemModal, formQuantity, editingItem, itemRequests, items,
                   filteredItems, notItems>>

\* onChange of the quantity input (line 647)
SetFormQuantity(value) ==
    /\ showAddItemModal
    /\ formQuantity' = FormQuantity(value)
    /\ UNCHANGED <<showAddItemModal, formName, editingItem, itemRequests, items,
                   filteredItems, notItems>>

\* Cancel: onClose unmounts the modal
CancelAddItem ==
    /\ showAddItemModal
    /\ showAddItemModal' = FALSE
    /\ formName' = ""
    /\ formQuantity' = 1
    /\ UNCHANGED <<editingItem, itemRequests, items, filteredItems, notItems>>

\* fetchBoxDetails resolved with the items, and the filter effect
Refetched(snapshot) ==
    /\ items' = snapshot
    /\ filteredItems' = FilterItems(snapshot, detailSearchTerm)

\* handleSubmit with a name that is not blank: onAdd(formData), that is
\* handleAddItem: POST /items, then on success fetchBoxDetails() and
\* setShowAddItemModal(false); on failure only console.error
HandleSubmit(ok, snapshot) ==
    /\ showAddItemModal
    /\ PassesValidation(formName, formQuantity)
    /\ Trim(formName) # ""
    /\ Len(itemRequests) < MaxRequests
    /\ itemRequests' =
           Append(itemRequests, [method |-> "POST", name |-> formName,
                                 quantity |-> Num(formQuantity)])
    /\ IF ok
       THEN /\ Refetched(snapshot)
            /\ showAddItemModal' = FALSE
            /\ formName' = ""
            /\ formQuantity' = 1
       ELSE UNCHANGED <<items, filteredItems, showAddItemModal, formName, formQuantity>>
    /\ UNCHANGED <<editingItem, notItems>>

\* Edit: onClick={() => setEditingItem(item.id)} (line 512)
EditItem(k) ==
    /\ route # HomeRoute
    /\ k \in DOMAIN filteredItems
    /\ editingItem' = filteredItems[k].id
    /\ UNCHANGED <<showAddItemModal, formName, formQuantity, itemRequests, items,
                   filteredItems, notItems>>

\* Cancel of the edit row (line 503)
CancelEdit ==
    /\ EditRowShown
    /\ editingItem' = ""
    /\ UNCHANGED <<showAddItemModal, formName, formQuantity, itemRequests, items,
                   filteredItems, notItems>>

\* Save of the edit row (lines 493-497), the name input holding typedName
\* and the quantity input holding typed:
\* handleUpdateItem: PUT /items/{id}, then on success fetchBoxDetails() and
\* setEditingItem(null); on failure only console.error
SaveEdit(typedName, typed, ok, snapshot) ==
    /\ EditRowShown
    /\ Len(itemRequests) < MaxRequests
    /\ itemRequests' =
           Append(itemRequests, [method |-> "PUT", name |-> typedName,
                                 quantity |-> ParseInt(typed)])
    /\ IF ok
       THEN Refetched(snapshot) /\ editingItem' = ""
       ELSE UNCHANGED <<items, filteredItems, editingItem>>
    /\ UNCHANGED <<showAddItemModal, formName, formQuantity, notItems>>

NextItems ==
    \/ OpenAddItem
    \/ \E value \in ItemNames : SetFormName(value)
    \/ \E value \in QuantityTexts : SetFormQuantity(value)
    \/ CancelAddItem
    \/ \E ok \in BOOLEAN, snapshot \in ItemSnapshots : HandleSubmit(ok, snapshot)
    \/ \E k \in 1..MaxItems : EditItem(k)
    \/ CancelEdit
    \/ \E typedName \in ItemNames, typed \in QuantityTexts, ok \in BOOLEAN,
          snapshot \in ItemSnapshots :
           SaveEdit(typedName, typed, ok, snapshot)

SpecItems == InitItems /\ [][NextItems]_vars

\* C20: every create request (POST /items) and every update request
\* (PUT /items/{id}) carries a quantity that is an integer and at least 1,
\* whatever was typed into the quantity field.
C20_QuantityAtLeastOne ==
    \A k \in DOMAIN itemRequests :
        ~itemRequests[k].quantity.nan /\ itemRequests[k].quantity.n >= 1

\* C21: no create-box, add-item or item-update request carries a name that
\* is empty or whitespace-only.
C21_NamesNotBlank ==
    /\ \A k \in DOMAIN itemRequests : Trim(itemRequests[k].name) # ""
    /\ \A k \in DOMAIN boxRequests : Trim(boxRequests[k]) # ""

---------------------------------------------------------------------------
(* The create-box dialog of BoxList. POST /boxes and the GET /boxes that    *)
(* follows a success settle later, in any order; createLog names the last *)
(* step taken.                                                             *)

\* what can be typed into the name input of CreateBoxModal
BoxNames == {"", " ", "pots"}

MaxCreates == 2

RunsAlways(ok) == TRUE

\* handleCreateBox: fetchBoxes() and setShowCreateModal(false) follow
\* await axios.post inside the try block, so they run when it did not throw
RunsAfterPost(ok) == ok

InitCreate ==
    /\ IdleScan
    /\ IdleHighlight
    /\ IdleDetail
    /\ IdleSearch
    /\ IdleMatch
    /\ IdleItems
    /\ IdleCreate
    /\ IdleRace
    /\ IdleFetch
    /\ IdleCsv
    /\ IdleBoot
    /\ boxes \in BoxSnapshots
    /\ filteredBoxes = FilterBoxes(boxes, "", "")
    /\ listSearchTerm = ""
    /\ locationFilter = ""

notCreate ==
    <<scanVars, hlVars, listSearchTerm, locationFilter, detailVars, searchVars, matchVars,
      itemVars,
      raceVars,
      fetchVars,
      csvVars,
      bootVars>>

\* "Create Box": onClick={() => setShowCreateModal(true)}
OpenCreateModal ==
    /\ route = HomeRoute
    /\ ~showCreateModal
    /\ showCreateModal' = TRUE
    /\ createLog' = "open"
    /\ UNCHANGED <<boxFormName, createPending, listFetches, boxRequests, boxes,
                   filteredBoxes, notCreate>>

\* onChange of the name input (line 567)
SetBoxFormName(value) ==
    /\ showCreateModal
    /\ boxFormName' = value
    /\ createLog' = "typed"
    /\ UNCHANGED <<showCreateModal, createPending, listFetches, boxRequests, boxes,
                   filteredBoxes, notCreate>>

\* Cancel: onClose unmounts the dialog
CancelCreate ==
    /\ showCreateModal
    /\ showCreateModal' = FALSE
    /\ boxFormName' = ""
    /\ createLog' = "cancel"
    /\ UNCHANGED <<createPending, listFetches, boxRequests, boxes, filteredBoxes, notCreate>>

\* handleSubmit (the name input is required) with a name that is not blank:
\* onCreate(formData), that is handleCreateBox up to its await
SubmitCreate ==
    /\ showCreateModal
    /\ boxFormName # ""
    /\ Trim(boxFormName) # ""
    /\ Len(boxRequests) < MaxCreates
    /\ createPending' = Append(createPending, boxFormName)
    /\ boxRequests' = Append(boxRequests, boxFormName)
    /\ createLog' = "submit"
    /\ UNCHANGED <<showCreateModal, boxFormName, listFetches, boxes, filteredBoxes,
                   notCreate>>

\* axios.post('/boxes') settles: handleCreateBox after its await
CreateSettled(k, ok) ==
    /\ k \in DOMAIN createPending
    /\ createPending' = RemoveAt(createPending, k)
    /\ listFetches' = IF RunsAfterPost(ok) THEN listFetches + 1 ELSE listFetches
    /\ showCreateModal' = IF RunsAfterPost(ok) THEN FALSE ELSE showCreateModal
    /\ boxFormName' = IF RunsAfterPost(ok) THEN "" ELSE boxFormName
    /\ createLog' = IF ok THEN "created" ELSE "failed"
    /\ UNCHANGED <<boxRequests, boxes, filteredBoxes, notCreate>>

\* axios.get('/boxes') of fetchBoxes settles: setBoxes(response.data) and the
\* filter effect, or console.error
FetchBoxesSettled(ok, snapshot) ==
    /\ listFetches > 0
    /\ listFetches' = listFetches - 1
    /\ boxes' = IF ok THEN snapshot ELSE boxes
    /\ filteredBoxes' =
           IF ok THEN FilterBoxes(snapshot, listSearchTerm, locationFilter)
           ELSE filteredBoxes
    /\ createLog' = "fetched"
    /\ UNCHANGED <<showCreateModal, boxFormName, createPending, boxRequests, notCreate>>

NextCreate ==
    \/ OpenCreateModal
    \/ \E value \in BoxNames : SetBoxFormName(value)
    \/ CancelCreate
    \/ SubmitCreate
    \/ \E k \in 1..MaxCreates, ok \in BOOLEAN : CreateSettled(k, ok)
    \/ \E ok \in BOOLEAN, snapshot \in BoxSnapshots : FetchBoxesSettled(ok, snapshot)

SpecCreate == InitCreate /\ [][NextCreate]_vars

\* C29: the create-box dialog is closed (other than by Cancel) and a refetch
\* of the boxes is issued only by the step in which a create request
\* succeeds; the step in which a create request fails leaves the dialog,
\* the number of fetches and boxes as they were.
C29_CreateFailureKeepsDialog ==
    [][/\ (showCreateModal /\ ~showCreateModal') => createLog' \in {"created", "cancel"}
       /\ listFetches' > listFetches => createLog' = "created"
       /\ createLog' = "failed" => UNCHANGED <<showCreateModal, boxes, listFetches>>]_vars

\* a create request has succeeded, and a later one has failed with the
\* dialog open
C29_Witness ==
    /\ createLog = "failed"
    /\ showCreateModal
    /\ Len(boxRequests) = 2
    /\ listFetches = 1

---------------------------------------------------------------------------
(* BoxDetail under route changes. The route "/box/:boxId" keeps one        *)
(* BoxDetail mounted while boxId changes (a scanned code, a global search  *)
(* result): its state stays and the effect on [boxId] fetches again.       *)

\* the box ids routes lead to
DetailIds == {"b1", "b2"}

MaxFetches == 2

\* useParams().boxId of a route "/box/<id>"
RouteBoxId(path) == LocatorCandidate(path)

ClearedBox(held) == ""

\* box after fetchBoxDetails was rejected: the catch block logs and calls
\* setLoading(false) only (lines 266-269)
BoxAfterFailure(held) == held

InitDetail ==
    /\ IdleScan
    /\ IdleHighlight
    /\ IdleViews

notDetail ==
    <<origin, showScanner, qrCodeUrl, scanLog, hlVars, listVars, detailSearchTerm,
      searchVars, raceVars, matchVars, itemVars, createVars,
      csvVars,
      bootVars>>

\* navigate(`/box/${id}`) from the box list: BoxDetail is mounted and its
\* effect calls fetchBoxDetails
MountDetail(id) ==
    /\ route = HomeRoute
    /\ route' = LocatorUrl("", id)
    /\ detailBox' = ""
    /\ itemsBox' = ""
    /\ detailLoading' = TRUE
    /\ detailFetches' = <<id>>
    /\ lastFetch' = NoFetch
    /\ UNCHANGED <<items, filteredItems, notDetail>>

\* navigate(`/box/${id}`) from another box's page: boxId changes, the state
\* stays, the effect calls fetchBoxDetails
ChangeBox(id) ==
    /\ route # HomeRoute
    /\ RouteBoxId(route) # id
    /\ Len(detailFetches) < MaxFetches
    /\ route' = LocatorUrl("", id)
    /\ detailFetches' = Append(detailFetches, id)
    /\ UNCHANGED <<detailBox, itemsBox, detailLoading, lastFetch, items, filteredItems, notDetail>>

\* Promise.all of fetchBoxDetails fulfilled: setBox, setItems,
\* setLoading(false), and the filter effect
FetchFulfilled(k, snapshot) ==
    /\ route # HomeRoute
    /\ k \in DOMAIN detailFetches
    /\ detailBox' = detailFetches[k]
    /\ itemsBox' = detailFetches[k]
    /\ items' = snapshot
    /\ filteredItems' = FilterItems(snapshot, detailSearchTerm)
    /\ detailLoading' = FALSE
    /\ detailFetches' = RemoveAt(detailFetches, k)
    /\ lastFetch' = [id |-> detailFetches[k], ok |-> TRUE]
    /\ UNCHANGED <<route, notDetail>>

\* Promise.all of fetchBoxDetails rejected: console.error, setLoading(false)
FetchRejected(k) ==
    /\ route # HomeRoute
    /\ k \in DOMAIN detailFetches
    /\ detailBox' = BoxAfterFailure(detailBox)
    /\ detailLoading' = FALSE
    /\ detailFetches' = RemoveAt(detailFetches, k)
    /\ lastFetch' = [id |-> detailFetches[k], ok |-> FALSE]
    /\ UNCHANGED <<route, itemsBox, items, filteredItems, notDetail>>

\* navigate('/'): BoxDetail is unmounted; what its requests bring later
\* reaches nothing
LeaveDetail ==
    /\ route # HomeRoute
    /\ route' = HomeRoute
    /\ detailBox' = ""
    /\ itemsBox' = ""
    /\ detailLoading' = TRUE
    /\ detailFetches' = <<>>
    /\ lastFetch' = NoFetch
    /\ items' = <<>>
    /\ filteredItems' = <<>>
    /\ UNCHANGED notDetail

NextDetail ==
    \/ \E id \in DetailIds : MountDetail(id)
    \/ \E id \in DetailIds : ChangeBox(id)
    \/ \E k \in 1..MaxFetches, snapshot \in ItemSnapshots : FetchFulfilled(k, snapshot)
    \/ \E k \in 1..MaxFetches : FetchRejected(k)
    \/ LeaveDetail

SpecDetail == InitDetail /\ [][NextDetail]_vars

\* the view shows "Box not found" (lines 363-370)
ShowsNotFound == ~detailLoading /\ detailBox = ""

\* C24: on a box's page, once no fetch is in flight, the box held and the
\* items held are those of the route's box id (or no box is held); when the
\* fetch for the route's box id has failed the view shows "Box not found";
\* box and items come from the same fetch.
C24_DetailMatchesRoute ==
    (route # HomeRoute /\ detailFetches = <<>>) =>
        /\ detailBox \in {"", RouteBoxId(route)}
        /\ itemsBox = detailBox
        /\ (lastFetch.id = RouteBoxId(route) /\ ~lastFetch.ok) => ShowsNotFound

---------------------------------------------------------------------------
(* convertToCSV, as the CSV exports call it. A row is the sequence of its  *)
(* values in the order of Object.keys(data[0]).                            *)

\* Array.prototype.join
RECURSIVE Join(_, _)
Join(parts, sep) ==
    IF parts = <<>> THEN ""
    ELSE IF Len(parts) = 1 THEN parts[1]
    ELSE parts[1] \o sep \o Join(Tail(parts), sep)

\* typeof value === 'string' && value.includes(',') ? `"${value}"` : value
CsvField(value) ==
    IF Includes(value, ",") THEN "\"" \o value \o "\"" ELSE value

\* headers.map(header => ...).join(',') for one row
CsvRow(row) == Join([k \in DOMAIN row |-> CsvField(row[k])], ",")

\* convertToCSV(data) for rows with the keys headers
ConvertToCSV(headers, data) ==
    IF Len(data) = 0 THEN ""
    ELSE Join(<<Join(headers, ",")>> \o [k \in DOMAIN data |-> CsvRow(data[k])], "\n")

\* Object.keys of an exported row
CsvHeaders == <<"Name", "Location">>

CsvAlphabet == {"a", ",", "\"", "\n"}

MaxValueLen == 2
MaxRows == 2

\* the values of the first and of the second column
CsvNames == TextsOf(CsvAlphabet, MaxValueLen)
CsvLocations == {"", "x,y"}

CsvRowsUniverse == {<<n, l>> : n \in CsvNames, l \in CsvLocations}

RECURSIVE RowLists(_)
RowLists(n) ==
    IF n = 0 THEN {<<>>}
    ELSE RowLists(n - 1)
             \cup {Append(q, r) : q \in {x \in RowLists(n - 1) : Len(x) = n - 1},
                                  r \in CsvRowsUniverse}

InitCsv ==
    /\ IdleScan
    /\ IdleHighlight
    /\ IdleList
    /\ IdleDetail
    /\ IdleSearch
    /\ IdleMatch
    /\ IdleItems
    /\ IdleCreate
    /\ IdleRace
    /\ IdleFetch
    /\ IdleBoot
    /\ csvRows \in RowLists(MaxRows)
    /\ csvOut = <<>>

notCsv ==
    <<scanVars, hlVars, listVars, detailVars, searchVars, raceVars, matchVars, itemVars,
      createVars, fetchVars,
      bootVars>>

\* one call of convertToCSV
ExportCSV ==
    /\ csvOut = <<>>
    /\ csvOut' = <<ConvertToCSV(CsvHeaders, csvRows)>>
    /\ UNCHANGED <<csvRows, notCsv>>

NextCsv == ExportCSV

SpecCsv == InitCsv /\ [][NextCsv]_vars

\* ---- reading CSV text by the standard quoting rules: fields separated by
\* commas, records by line breaks; a field in double quotes may hold commas,
\* line breaks and doubled double quotes; a double quote anywhere else is
\* malformed
CsvMalformed == [ok |-> FALSE, records |-> <<>>]

\* mode "start": at the start of a field; "plain": in an unquoted field;
\* "quoted": in a quoted field; "closed": after the closing quote
RECURSIVE ReadCsv(_, _, _, _, _, _)
ReadCsv(text, p, mode, field, record, records) ==
    IF p > Len(text)
    THEN IF mode = "quoted" THEN CsvMalformed
         ELSE [ok |-> TRUE, records |-> Append(records, Append(record, field))]
    ELSE LET c == At(text, p)
         IN  IF mode = "quoted"
             THEN IF c # "\"" THEN ReadCsv(text, p + 1, "quoted", field \o c, record, records)
                  ELSE IF At(text, p + 1) = "\""
                  THEN ReadCsv(text, p + 2, "quoted", field \o "\"", record, records)
                  ELSE ReadCsv(text, p + 1, "closed", field, record, records)
             ELSE IF c = ","
             THEN ReadCsv(text, p + 1, "start", "", Append(record, field), records)
             ELSE IF c = "\n"
             THEN ReadCsv(text, p + 1, "start", "", <<>>,
                          Append(records, Append(record, field)))
             ELSE IF c = "\""
             THEN IF mode = "start"
                  THEN ReadCsv(text, p + 1, "quoted", "", record, records)
                  ELSE CsvMalformed
             ELSE IF mode = "closed" THEN CsvMalformed
             ELSE ReadCsv(text, p + 1, "plain", field \o c, record, records)

ParseCsv(text) == ReadCsv(text, 1, "start", "", <<>>, <<>>)

\* C28: the text convertToCSV produces for a non-empty list of rows reads
\* back, by the standard quoting rules, as the header record followed by one
\* record per row with the row's values, also for values that hold commas,
\* double quotes or line breaks; for an empty list it is the empty string.
C28_CsvReadsBack ==
    csvOut # <<>> =>
        IF csvRows = <<>> THEN csvOut[1] = ""
        ELSE ParseCsv(csvOut[1]) = [ok |-> TRUE, records |-> <<CsvHeaders>> \o csvRows]

---------------------------------------------------------------------------
(* startup.sh: the container's start script. The script has no set -e, so  *)
(* a failing command is followed by the next one. /data/db is kept across  *)
(* starts; the processes of a stopped container are gone.                  *)

MaxStarts == 3

InitBoot ==
    /\ IdleScan
    /\ IdleHighlight
    /\ IdleViews

notBoot ==
    <<scanVars, hlVars, listVars, detailVars, searchVars, raceVars, matchVars, itemVars,
      createVars, fetchVars, csvVars>>

\* the command after touch /data/db/.initialized, whatever its outcome
AfterTouch(ok) == "supervisord"

\* the branch of if [ ! -f /data/db/.initialized ]
AfterTest(exists) == IF exists THEN "supervisord" ELSE "mongod"

\* docker run / restart: the mkdir -p lines and the test of the marker
StartContainer ==
    /\ bootPc = "stopped"
    /\ starts < MaxStarts
    /\ starts' = starts + 1
    /\ initOk' = <<>>
    /\ bootPc' = AfterTest(marker)
    /\ UNCHANGED <<marker, dbReady, mongodUp, notBoot>>

\* mongod --fork ...; sleep 5
StartMongod(ok) ==
    /\ bootPc = "mongod"
    /\ mongodUp' = ok
    /\ initOk' = Append(initOk, ok)
    /\ bootPc' = "mongosh"
    /\ UNCHANGED <<marker, dbReady, starts, notBoot>>

\* mongosh --eval "use box_management; db.createCollection(...); ..."
\* it can succeed only against a running mongod
RunMongosh(ok) ==
    /\ bootPc = "mongosh"
    /\ ok => mongodUp
    /\ dbReady' = (dbReady \/ ok)
    /\ initOk' = Append(initOk, ok)
    /\ bootPc' = "shutdown"
    /\ UNCHANGED <<marker, mongodUp, starts, notBoot>>

\* mongod --shutdown
ShutdownMongod(ok) ==
    /\ bootPc = "shutdown"
    /\ ok => mongodUp
    /\ mongodUp' = (mongodUp /\ ~ok)
    /\ initOk' = Append(initOk, ok)
    /\ bootPc' = "touch"
    /\ UNCHANGED <<marker, dbReady, starts, notBoot>>

\* touch /data/db/.initialized; echo "MongoDB initialized!"
TouchMarker(ok) ==
    /\ bootPc = "touch"
    /\ marker' = (marker \/ ok)
    /\ bootPc' = AfterTouch(ok)
    /\ UNCHANGED <<dbReady, mongodUp, initOk, starts, notBoot>>

\* exec /usr/bin/supervisord -c ...
ExecSupervisord ==
    /\ bootPc = "supervisord"
    /\ bootPc' = "running"
    /\ UNCHANGED <<marker, dbReady, mongodUp, initOk, starts, notBoot>>

\* the container is stopped or killed, at any command of the script
StopContainer ==
    /\ bootPc # "stopped"
    /\ bootPc' = "stopped"
    /\ mongodUp' = FALSE
    /\ UNCHANGED <<marker, dbReady, initOk, starts, notBoot>>

NextBoot ==
    \/ StartContainer
    \/ \E ok \in BOOLEAN : StartMongod(ok)
    \/ \E ok \in BOOLEAN : RunMongosh(ok)
    \/ \E ok \in BOOLEAN : ShutdownMongod(ok)
    \/ \E ok \in BOOLEAN : TouchMarker(ok)
    \/ ExecSupervisord
    \/ StopContainer

SpecBoot == InitBoot /\ [][NextBoot]_vars

InitSteps == {"mongod", "mongosh", "shutdown"}

\* C30: the marker /data/db/.initialized is created only in a start whose
\* three initialization commands (start mongod, create collections and
\* indexes, shut down) all succeeded; a start that finds the marker runs
\* none of them and goes on to supervisord.
C30_MarkerAfterInit ==
    [][/\ (~marker /\ marker') => initOk = <<TRUE, TRUE, TRUE>>
       /\ marker => bootPc' \notin InitSteps
       /\ (marker /\ bootPc = "stopped" /\ bootPc' # "stopped") => bootPc' = "supervisord"]_vars

====
